---- MODULE Spec2Model ----
(***************************************************************************)
(* HostHunter: the file scan (src/src/file_handler.py), the resolver, the  *)
(* HTTP host check and the ping check (src/src/host_checker.py), the       *)
(* special checks (src/src/special_checks.py), host and UUID validation    *)
(* (src/src/utils.py) and the menu loop (src/src/cli.py), as state         *)
(* machines.                                                               *)
(*                                                                         *)
(* Text is modelled as a sequence of one-character strings, so that        *)
(* strip(), split("."), the regular expressions and the substring tests of *)
(* the code are computed, not assumed.                                     *)
(***************************************************************************)
EXTENDS Integers, Sequences, FiniteSets, TLC

VARIABLES
    file,         \* the host source: [state, lines]
    max_workers,  \* the max_workers argument of scan_hosts_from_file
    pc,           \* position of the thread running scan_hosts_from_file
    hosts,        \* the list `hosts` of scan_hosts_from_file
    futures,      \* the list `futures`: one record per submitted check_host
    results,      \* the list `results` of scan_hosts_from_file
    outcome,      \* how scan_hosts_from_file ended: [kind, value]
    invoked,      \* log: the host of every check_host invocation, in start order
    cache,        \* the lru_cache of get_host_ips, most recently used first
    callers,      \* threads calling get_host_ips: [host, state, did, ret]
    spy,          \* log: the last sequential get_host_ips call
    lru,          \* log: the calls for the tracked host and what lay between
    chk,          \* a call of check_host: its locals and the commands it ran
    png,          \* a call of check_ping: its locals and what it invoked
    special,      \* the last call of a special check and what it opened
    menu,         \* main_menu: its results and the probes it invoked
    vh,           \* the last call of validate_host: [called, host, verdict]
    net           \* the network operations a probe issued: [fn, timeout, ops]

vars == <<file, max_workers, pc, hosts, futures, results, outcome, invoked,
          cache, callers, spy, lru, chk, png, special, menu, vh, net>>

-----------------------------------------------------------------------------
(* Characters and text                                                     *)

Digits == {"0", "1", "2", "3", "4", "5", "6", "7", "8", "9"}

Lower == {"a", "b", "c", "d", "e", "f", "g", "h", "i", "j", "k", "l", "m",
          "n", "o", "p", "q", "r", "s", "t", "u", "v", "w", "x", "y", "z"}

Upper == {"A", "B", "C", "D", "E", "F", "G", "H", "I", "J", "K", "L", "M",
          "N", "O", "P", "Q", "R", "S", "T", "U", "V", "W", "X", "Y", "Z"}

Letters == Lower \cup Upper

AlNum == Letters \cup Digits

Whitespace == {" ", "\t", "\n", "\r"}

DigitValue(c) ==
    CASE c = "0" -> 0 [] c = "1" -> 1 [] c = "2" -> 2 [] c = "3" -> 3
      [] c = "4" -> 4 [] c = "5" -> 5 [] c = "6" -> 6 [] c = "7" -> 7
      [] c = "8" -> 8 [] c = "9" -> 9

DigitChar(n) == <<"0", "1", "2", "3", "4", "5", "6", "7", "8", "9">>[n + 1]

RECURSIVE Decimal(_)
\* str(n) for n >= 0
Decimal(n) == IF n < 10 THEN <<DigitChar(n)>>
              ELSE Decimal(n \div 10) \o <<DigitChar(n % 10)>>

RECURSIVE NumberOf(_)
\* int(s) for a non-empty digit string s
NumberOf(s) == IF Len(s) = 1 THEN DigitValue(s[1])
               ELSE 10 * NumberOf(SubSeq(s, 1, Len(s) - 1)) + DigitValue(s[Len(s)])

AllIn(s, S) == \A i \in 1..Len(s) : s[i] \in S

RECURSIVE LStrip(_)
LStrip(s) == IF s # <<>> /\ Head(s) \in Whitespace THEN LStrip(Tail(s)) ELSE s

RECURSIVE RStrip(_)
RStrip(s) == IF s # <<>> /\ s[Len(s)] \in Whitespace
             THEN RStrip(SubSeq(s, 1, Len(s) - 1)) ELSE s

\* str.strip()
Strip(s) == RStrip(LStrip(s))

\* s[i-1:j], which stops at the end of s
Slice(s, i, j) == SubSeq(s, i, IF j > Len(s) THEN Len(s) ELSE j)

\* `w in s` for two texts
Contains(s, w) ==
    \E i \in 0..(Len(s) - Len(w)) : SubSeq(s, i + 1, i + Len(w)) = w

RECURSIVE Split(_, _)
\* s.split(c) for a one-character separator c
Split(s, c) ==
    IF \A i \in 1..Len(s) : s[i] # c THEN <<s>>
    ELSE LET k == CHOOSE i \in 1..Len(s) :
                      s[i] = c /\ \A j \in 1..(i - 1) : s[j] # c
         IN  <<SubSeq(s, 1, k - 1)>> \o Split(SubSeq(s, k + 1, Len(s)), c)

-----------------------------------------------------------------------------
(* utils.validate_host                                                     *)

MaxHostLen == 253
MaxLabelLen == 63
MaxOctet == 255

\* 25[0-5]|2[0-4][0-9]|[01]?[0-9][0-9]?
IsOctet(s) ==
    /\ Len(s) \in 1..3
    /\ AllIn(s, Digits)
    /\ NumberOf(s) <= MaxOctet

\* ipv4_regex
IsIPv4(s) ==
    LET parts == Split(s, ".")
    IN  Len(parts) = 4 /\ \A i \in 1..4 : IsOctet(parts[i])

\* ^[A-Za-z0-9](?:[A-Za-z0-9-]{0,61}[A-Za-z0-9])$
LabelOk(l) ==
    /\ Len(l) \in 2..MaxLabelLen
    /\ l[1] \in AlNum
    /\ l[Len(l)] \in AlNum
    /\ AllIn(l, AlNum \cup {"-"})

validate_host(line) ==
    LET host == Strip(line)
        labels == Split(host, ".")
    IN  IF host = <<>> THEN FALSE
        ELSE IF Len(host) > MaxHostLen THEN FALSE
        ELSE IF \E i \in 1..Len(host) : host[i] \in {"/", "@", ":", "?", "#"}
             THEN FALSE
        ELSE IF IsIPv4(host) THEN TRUE
        ELSE IF ~AllIn(host, AlNum \cup {".", "-"}) THEN FALSE
        ELSE IF host[1] \in {"-", "."} \/ host[Len(host)] \in {"-", "."}
             THEN FALSE
        ELSE IF Contains(host, <<".", ".">>) THEN FALSE
        ELSE IF \E i \in 1..Len(labels) :
                    Len(labels[i]) = 0 \/ Len(labels[i]) > MaxLabelLen
             THEN FALSE
        ELSE IF \E i \in 1..Len(labels) : ~LabelOk(labels[i]) THEN FALSE
        ELSE IF ~(Len(labels[Len(labels)]) >= 2
                  /\ AllIn(labels[Len(labels)], Letters))
             THEN FALSE
        ELSE TRUE

-----------------------------------------------------------------------------
(* The literal texts of host_checker.py and file_handler.py                *)

\* the unresolved sentinel
NA == <<"N", "/", "A">>

TxtPrefix200 == <<"[", "2", "0", "0", " ", "O", "K", "]", " ">>

TxtPrefixRedirect == <<"[", "R", "e", "d", "i", "r", "e", "c", "t", "]", " ">>

TxtPrefixFailed == <<"[", "F", "a", "i", "l", "e", "d", "]", " ">>

TxtPrefixTimeout == <<"[", "T", "i", "m", "e", "o", "u", "t", "]", " ">>

TxtPrefixError == <<"[", "E", "r", "r", "o", "r", "]", " ">>

TxtIp == <<" ", "(", "I", "P", ":", " ">>

TxtPort == <<",", " ", "P", "o", "r", "t", ":", " ">>

TxtResponse == <<",", " ", "R", "e", "s", "p", "o", "n", "s", "e", ":", " ">>

TxtMsActive ==
    <<" ", "m", "s", ")", " ", "i", "s", " ", "a", "c", "t", "i", "v", "e",
      "!">>

TxtMsUsable ==
    <<" ", "m", "s", ")", " ", "m", "a", "y", " ", "b", "e", " ", "u", "s",
      "a", "b", "l", "e", ".">>

TxtReturned == <<")", " ", "r", "e", "t", "u", "r", "n", "e", "d", " ">>

TxtCurlError ==
    <<")", " ", "c", "u", "r", "l", " ", "e", "r", "r", "o", "r", ":", " ">>

TxtTookTooLong ==
    <<")", " ", "t", "o", "o", "k", " ", "t", "o", "o", " ", "l", "o", "n",
      "g", " ", "t", "o", " ", "r", "e", "s", "p", "o", "n", "d", ".">>

TxtFailed == <<")", " ", "f", "a", "i", "l", "e", "d", ":", " ">>

TxtFailedToResolve ==
    <<")", " ", "f", "a", "i", "l", "e", "d", " ", "t", "o", " ", "r", "e",
      "s", "o", "l", "v", "e", ".">>

TxtNoValid ==
    <<")", " ", "n", "o", " ", "v", "a", "l", "i", "d", " ", "r", "e", "s",
      "p", "o", "n", "s", "e", "s", ".">>

TxtHostCheckFailed ==
    <<"[", "E", "r", "r", "o", "r", "]", " ", "H", "o", "s", "t", " ", "c",
      "h", "e", "c", "k", " ", "f", "a", "i", "l", "e", "d", ":", " ">>

Txt200 == <<"2", "0", "0">>

Txt301 == <<"3", "0", "1">>

Txt302 == <<"3", "0", "2">>

Txt200OK == <<"2", "0", "0", " ", "O", "K">>

TxtRedirect == <<"R", "e", "d", "i", "r", "e", "c", "t">>

TxtResponseKey == <<"R", "e", "s", "p", "o", "n", "s", "e", ":", " ">>

TxtMs == <<" ", "m", "s">>

\* str(IndexError) of result.stdout.splitlines()[0]
TxtIndexError ==
    <<"l", "i", "s", "t", " ", "i", "n", "d", "e", "x", " ", "o", "u", "t",
      " ", "o", "f", " ", "r", "a", "n", "g", "e">>

-----------------------------------------------------------------------------
(* Sort keys and list.sort                                                 *)

\* A sort key is <<0, t>> for the finite time t and <<1, 0>> for
\* float("inf"): the order of the pairs is the order of the floats.
Finite(t) == <<0, t>>

Inf == <<1, 0>>

KeyLE(a, b) == a[1] < b[1] \/ (a[1] = b[1] /\ a[2] <= b[2])

\* One step of a stable sort over [key, item] pairs: p goes after every
\* entry whose key is not greater than its own.
Insert(sorted, p) ==
    LET k == Cardinality({i \in 1..Len(sorted) : KeyLE(sorted[i].key, p.key)})
    IN  SubSeq(sorted, 1, k) \o <<p>> \o SubSeq(sorted, k + 1, Len(sorted))

RECURSIVE StableSort(_)
\* list.sort(key=...): ascending by key, equal keys keep their order
StableSort(pairs) ==
    IF pairs = <<>> THEN <<>>
    ELSE Insert(StableSort(SubSeq(pairs, 1, Len(pairs) - 1)), pairs[Len(pairs)])

Items(pairs) == [i \in 1..Len(pairs) |-> pairs[i].item]

RECURSIVE Join(_, _)
\* sep.join(texts)
Join(texts, sep) ==
    IF texts = <<>> THEN <<>>
    ELSE IF Len(texts) = 1 THEN texts[1]
    ELSE texts[1] \o sep \o Join(Tail(texts), sep)

-----------------------------------------------------------------------------
(* host_checker.get_host_ips: the body, without its cache                  *)

\* ^\d+\.\d+\.\d+\.\d+$
IsDottedQuad(s) ==
    LET parts == Split(s, ".")
    IN  Len(parts) = 4
        /\ \A i \in 1..4 : parts[i] # <<>> /\ AllIn(parts[i], Digits)

RECURSIVE ParseDig(_)
\* the list comprehension over result.stdout.splitlines()
ParseDig(lines) ==
    IF lines = <<>> THEN <<>>
    ELSE (IF IsDottedQuad(Strip(Head(lines))) THEN <<Strip(Head(lines))>>
          ELSE <<>>) \o ParseDig(Tail(lines))

\* get_host_ips that returns the list it built, empty or not
GetHostIpsBodyNoSentinel(dig) ==
    IF dig.kind = "ok" THEN ParseDig(dig.stdout) ELSE <<>>

\* dig is what subprocess.run did: [kind, stdout], kind "ok" for exit code
\* 0 with stdout the lines of the output, else the exception raised.
GetHostIpsBody(dig) ==
    IF dig.kind = "ok"
    THEN LET ips == ParseDig(dig.stdout)
         IN  IF ips # <<>> THEN ips ELSE <<NA>>
    ELSE <<NA>>

-----------------------------------------------------------------------------
(* functools.lru_cache(maxsize=128) around get_host_ips                    *)

CacheMaxSize == 128

CacheHas(c, key) == \E i \in 1..Len(c) : c[i].key = key

CacheGet(c, key) == (CHOOSE i \in 1..Len(c) : c[i].key = key)

\* a hit moves the entry to the most-recently-used end
CacheTouch(c, key) ==
    LET i == CacheGet(c, key)
    IN  <<c[i]>> \o SubSeq(c, 1, i - 1) \o SubSeq(c, i + 1, Len(c))

\* a store that drops an entry one entry before the cache is full
CacheStoreOneShort(c, key, val) ==
    IF CacheHas(c, key) THEN c
    ELSE IF Len(c) >= CacheMaxSize - 1
         THEN <<[key |-> key, val |-> val]>> \o SubSeq(c, 1, Len(c) - 1)
    ELSE <<[key |-> key, val |-> val]>> \o c

\* a cache that keeps no answer of a failed lookup
CacheStoreNoFailures(c, key, val) ==
    IF val = <<NA>> \/ CacheHas(c, key) THEN c
    ELSE IF Len(c) >= CacheMaxSize
         THEN <<[key |-> key, val |-> val]>> \o SubSeq(c, 1, Len(c) - 1)
    ELSE <<[key |-> key, val |-> val]>> \o c

\* a store that does not look for the key again after the call
CacheStoreUnchecked(c, key, val) ==
    IF Len(c) >= CacheMaxSize
    THEN <<[key |-> key, val |-> val]>> \o SubSeq(c, 1, Len(c) - 1)
    ELSE <<[key |-> key, val |-> val]>> \o c

\* after the wrapped function returned: a key stored meanwhile by another
\* caller is left alone; a full cache drops its least recently used entry
CacheStore(c, key, val) ==
    IF CacheHas(c, key) THEN c
    ELSE IF Len(c) >= CacheMaxSize
         THEN <<[key |-> key, val |-> val]>> \o SubSeq(c, 1, Len(c) - 1)
    ELSE <<[key |-> key, val |-> val]>> \o c

-----------------------------------------------------------------------------
(* host_checker.check_host                                                 *)

\* Times are in thousandths of a millisecond, so that the two decimals of
\* f"{response_time:.2f}" drop something.
Pad2(n) == IF n < 10 THEN <<"0">> \o Decimal(n) ELSE Decimal(n)

\* f"{response_time:.2f}"
Format2f(t) ==
    LET h == (t + 5) \div 10
    IN  Decimal(h \div 100) \o <<".">> \o Pad2(h % 100)

\* check_host that reports a non-zero exit of curl as [Error]
ProbeOneCurlErrorAsError(host, port, ip, curl) ==
    LET where == host \o TxtIp \o ip \o TxtPort \o Decimal(port)
        timed == TxtResponse \o Format2f(curl.rt)
        line == IF curl.stdout # <<>> THEN curl.stdout[1] ELSE <<>>
    IN  IF curl.kind = "ok" /\ curl.stdout # <<>> /\ Contains(line, Txt200)
        THEN [key |-> Finite(curl.rt),
              item |-> TxtPrefix200 \o where \o timed \o TxtMsActive]
        ELSE IF curl.kind = "ok" /\ curl.stdout # <<>>
                /\ (Contains(line, Txt301) \/ Contains(line, Txt302))
        THEN [key |-> Finite(curl.rt),
              item |-> TxtPrefixRedirect \o where \o timed \o TxtMsUsable]
        ELSE IF curl.kind = "ok" /\ curl.stdout # <<>>
        THEN [key |-> Inf,
              item |-> TxtPrefixFailed \o where \o TxtReturned \o line]
        ELSE IF curl.kind = "TimeoutExpired"
        THEN [key |-> Inf, item |-> TxtPrefixTimeout \o where \o TxtTookTooLong]
        ELSE [key |-> Inf,
              item |-> TxtPrefixError \o where \o TxtFailed
                       \o (IF curl.kind = "ok" THEN TxtIndexError
                           ELSE IF curl.kind = "CalledProcessError"
                           THEN Strip(curl.stderr) ELSE curl.err)]

\* curl is what subprocess.run did for one address: [kind, stdout, rt,
\* stderr, err]; kind "ok" is exit code 0, with stdout the lines of the
\* output and rt the time measured; otherwise kind names the exception,
\* stderr is e.stderr and err is str(e).
ProbeOne(host, port, ip, curl) ==
    LET where == host \o TxtIp \o ip \o TxtPort \o Decimal(port)
        timed == TxtResponse \o Format2f(curl.rt)
    IN  IF curl.kind = "ok" /\ curl.stdout # <<>>
        THEN IF Contains(curl.stdout[1], Txt200)
             THEN [key |-> Finite(curl.rt),
                   item |-> TxtPrefix200 \o where \o timed \o TxtMsActive]
             ELSE IF Contains(curl.stdout[1], Txt301)
                     \/ Contains(curl.stdout[1], Txt302)
             THEN [key |-> Finite(curl.rt),
                   item |-> TxtPrefixRedirect \o where \o timed \o TxtMsUsable]
             ELSE [key |-> Inf,
                   item |-> TxtPrefixFailed \o where \o TxtReturned
                            \o curl.stdout[1]]
        ELSE IF curl.kind = "ok"
        THEN [key |-> Inf,
              item |-> TxtPrefixError \o where \o TxtFailed \o TxtIndexError]
        ELSE IF curl.kind = "CalledProcessError"
        THEN [key |-> Inf,
              item |-> TxtPrefixFailed \o where \o TxtCurlError
                       \o Strip(curl.stderr)]
        ELSE IF curl.kind = "TimeoutExpired"
        THEN [key |-> Inf, item |-> TxtPrefixTimeout \o where \o TxtTookTooLong]
        ELSE [key |-> Inf,
              item |-> TxtPrefixError \o where \o TxtFailed \o curl.err]

\* results left in the order of the addresses
SortOutcomesNone(probes) == probes

\* results.sort(key=lambda x: x[0])
SortOutcomes(probes) == StableSort(probes)

\* a loop that takes "N/A" for an address like any other
IsSentinelNever(ip) == FALSE

\* line 92: ip == "N/A"
IsSentinel(ip) == ip = NA

\* the return for an address "N/A"
Unresolved(host) ==
    [color |-> "red",
     message |-> TxtPrefixError \o host \o TxtIp \o NA \o TxtFailedToResolve]

\* after the loop: sort, colour of the best outcome, join
CheckHostFinish(host, port, probes) ==
    LET sorted == Items(SortOutcomes(probes))
    IN  IF sorted # <<>>
        THEN [color |-> IF Contains(sorted[1], Txt200OK) THEN "green"
                        ELSE IF Contains(sorted[1], TxtRedirect) THEN "yellow"
                        ELSE "red",
              message |-> Join(sorted, <<"\n">>)]
        ELSE [color |-> "red",
              message |-> TxtPrefixError \o host \o TxtIp \o NA \o TxtPort
                          \o Decimal(port) \o TxtNoValid]

-----------------------------------------------------------------------------
(* file_handler.scan_hosts_from_file: the sort key                         *)

RECURSIVE RunLen(_, _)
\* the length of the longest run of [\d.] in m from position j
RunLen(m, j) ==
    IF j <= Len(m) /\ m[j] \in Digits \cup {"."} THEN 1 + RunLen(m, j + 1)
    ELSE 0

\* "Response: ([\d.]+) ms" matches m at position i
MatchAt(m, i) ==
    LET j == i + Len(TxtResponseKey)
        n == RunLen(m, j)
    IN  /\ m[i] = TxtResponseKey[1]
        /\ Slice(m, i, j - 1) = TxtResponseKey
        /\ n >= 1
        /\ Slice(m, j + n, j + n + Len(TxtMs) - 1) = TxtMs

\* float(g), in hundredths: exact for the texts with at most two decimals,
\* which are the ones check_host prints
ParseFloat(g) ==
    LET parts == Split(g, ".")
        whole == IF parts[1] = <<>> THEN 0 ELSE NumberOf(parts[1])
        frac == IF Len(parts) < 2 \/ parts[2] = <<>> THEN 0
                ELSE IF Len(parts[2]) = 1 THEN 10 * NumberOf(parts[2])
                ELSE NumberOf(SubSeq(parts[2], 1, 2))
    IN  100 * whole + frac
\* extract_response_time reading the last time of the message, not the first
extract_response_time_last(result) ==
    LET m == result.message
        hits == {i \in 1..Len(m) : MatchAt(m, i)}
    IN  IF hits # {}
        THEN LET i == CHOOSE x \in hits : \A y \in hits : x >= y
                 j == i + Len(TxtResponseKey)
             IN  Finite(ParseFloat(SubSeq(m, j, j + RunLen(m, j) - 1)))
        ELSE Inf

extract_response_time(result) ==
    LET m == result.message
        hits == {i \in 1..Len(m) : MatchAt(m, i)}
    IN  IF hits # {}
        THEN LET i == CHOOSE x \in hits : \A y \in hits : x <= y
                 j == i + Len(TxtResponseKey)
             IN  Finite(ParseFloat(SubSeq(m, j, j + RunLen(m, j) - 1)))
        ELSE Inf

\* results.sort(key=extract_response_time)
SortResults(rs) ==
    Items(StableSort([i \in 1..Len(rs) |->
                         [key |-> extract_response_time(rs[i]), item |-> rs[i]]]))

-----------------------------------------------------------------------------
(* The inputs the specifications draw from                                 *)

HostA == <<"a", "a", ".", "c", "o">>

HostB == <<"b", "b", ".", "c", "o">>

Ip1 == <<"1", ".", "1", ".", "1", ".", "1">>

Ip2 == <<"8", ".", "8", ".", "8", ".", "8">>

LineA == <<"a", "a", ".", "c", "o", "\n">>

LineB == <<" ", "b", "b", ".", "c", "o", " ", "\n">>

LineBad == <<"b", "a", "d", " ", "h", "o", "s", "t", "\n">>

LineBlank == <<"\n">>

Status200 ==
    <<"H", "T", "T", "P", "/", "1", ".", "1", " ", "2", "0", "0", " ", "O",
      "K">>

Status301 ==
    <<"H", "T", "T", "P", "/", "1", ".", "1", " ", "3", "0", "1", " ", "M",
      "o", "v", "e", "d", " ", "P", "e", "r", "m", "a", "n", "e", "n", "t",
      "l", "y">>

Status500 ==
    <<"H", "T", "T", "P", "/", "1", ".", "1", " ", "5", "0", "0", " ", "I",
      "n", "t", "e", "r", "n", "a", "l", " ", "S", "e", "r", "v", "e", "r",
      " ", "E", "r", "r", "o", "r">>

TxtBoom == <<"b", "o", "o", "m">>

Ip2Padded == <<" ", "8", ".", "8", ".", "8", ".", "8", " ">>

CnameLine == <<"c", "d", "n", ".", "a", "a", ".", "c", "o", ".">>

NoServersLine ==
    <<";", ";", " ", "n", "o", " ", "s", "e", "r", "v", "e", "r", "s">>

\* the lines a host file is made of: two hosts, one of them padded, a line
\* that is no host and a blank line
LineChoices == {LineA, LineB, LineBad, LineBlank}

MaxLines == 2

MaxWorkers == 2

RECURSIVE SeqsUpTo(_, _)
\* the sequences over S of length at most n
SeqsUpTo(S, n) ==
    IF n = 0 THEN {<<>>}
    ELSE LET shorter == SeqsUpTo(S, n - 1)
         IN  shorter \cup {Append(q, x) : q \in shorter, x \in S}

CurlOk(line, t) ==
    [kind |-> "ok", stdout |-> <<line>>, rt |-> t, stderr |-> <<>>, err |-> <<>>]

CurlErr(kind, stderr, err) ==
    [kind |-> kind, stdout |-> <<>>, rt |-> 0, stderr |-> stderr, err |-> err]

DigOk(lines) == [kind |-> "ok", stdout |-> lines]

DigErr(kind) == [kind |-> kind, stdout |-> <<>>]

\* what curl does for the addresses of a host during a scan, in probe
\* order: the later address answers faster; the first answers and the
\* second times out; only the second answers, slowly; both time out
ScanCurlRuns ==
    {<<CurlOk(Status301, 2000), CurlOk(Status200, 1004)>>,
     <<CurlOk(Status200, 1004), CurlErr("TimeoutExpired", <<>>, <<>>)>>,
     <<CurlErr("TimeoutExpired", <<>>, <<>>), CurlOk(Status301, 2000)>>,
     <<CurlErr("TimeoutExpired", <<>>, <<>>),
       CurlErr("TimeoutExpired", <<>>, <<>>)>>}

\* the lines dig +short prints: addresses, one of them padded, the target
\* of a CNAME, a diagnostic
DigLines == {Ip1, Ip2Padded, CnameLine, NoServersLine}

MaxDigLines == 2

\* what dig does: exit code 0 with some lines, a non-zero exit code, a
\* timeout, any other exception
DigOutcomes ==
    {DigOk(l) : l \in SeqsUpTo(DigLines, MaxDigLines)}
    \cup {DigErr("CalledProcessError"), DigErr("TimeoutExpired"),
          DigErr("Exception")}

\* what dig does during a scan
ScanDigs == {DigOk(<<Ip1, Ip2>>), DigErr("TimeoutExpired")}

-----------------------------------------------------------------------------
(* file_handler.scan_hosts_from_file on a ThreadPoolExecutor               *)

\* the port scan_hosts_from_file passes to check_host
ScanPort == 443

NoResult == [color |-> "none", message |-> <<>>]

NoOutcome == [kind |-> "none", value |-> <<>>]

NoDig == [kind |-> "none", stdout |-> <<>>]

\* dig is what the lookup of this call ran into, NoDig when get_host_ips
\* answered from its cache
NoChk == [state |-> "idle", host |-> <<>>, port |-> 0, dig |-> NoDig,
          ips |-> <<>>, probes |-> <<>>, cmds |-> <<>>, result |-> NoResult]

NoPng == [state |-> "idle", host |-> <<>>, dig |-> NoDig, ip |-> <<>>,
          pings |-> <<>>, fallbacks |-> <<>>, result |-> NoResult]

\* io is what the network layer did in the call, typed the answer given to
\* the port prompt when the call came from the menu
NoSpecial == [fn |-> "none", args |-> <<>>, io |-> <<>>, typed |-> <<>>,
              opened |-> 0, raised |-> "none", result |-> NoResult]

NoVh == [called |-> FALSE, host |-> <<>>, verdict |-> FALSE]

NoNet == [fn |-> "none", timeout |-> 0, ops |-> <<>>]

NoMenu == [state |-> "prompt", results |-> <<>>, calls |-> <<>>,
           turns |-> 0]

NoSpy == [host |-> <<>>, lookup |-> FALSE, repeat |-> FALSE, ret |-> <<>>,
          dig |-> NoDig]

NoLru == [called |-> FALSE, first |-> <<>>, others |-> {}, intact |-> TRUE,
          fresh |-> 0]
RECURSIVE ReadHostsUnvalidated(_)
\* ReadHosts without the call of validate_host
ReadHostsUnvalidated(lines) ==
    IF lines = <<>> THEN <<>>
    ELSE (IF Strip(Head(lines)) # <<>> THEN <<Strip(Head(lines))>> ELSE <<>>)
         \o ReadHostsUnvalidated(Tail(lines))

RECURSIVE ReadHosts(_)
\* [line.strip() for line in f if line.strip() and validate_host(line.strip())]
ReadHosts(lines) ==
    IF lines = <<>> THEN <<>>
    ELSE (IF Strip(Head(lines)) # <<>> /\ validate_host(Strip(Head(lines)))
          THEN <<Strip(Head(lines))>> ELSE <<>>) \o ReadHosts(Tail(lines))

Running(f) == f.state \in {"resolving", "probing"}

Finished(f) == f.state \in {"done", "raised"}

NumRunning == Cardinality({i \in 1..Len(futures) : Running(futures[i])})
\* CanStart for a pool that starts a thread per work item
CanStartUnbounded(i) ==
    /\ futures[i].state = "pending"
    /\ \A j \in 1..(i - 1) : futures[j].state # "pending"

\* CanStart for a pool whose threads end after one work item
CanStartOnce(i) ==
    /\ futures[i].state = "pending"
    /\ \A j \in 1..(i - 1) : futures[j].state # "pending"
    /\ i <= max_workers

\* A worker thread takes the oldest queued work item; the executor has at
\* most max_workers threads, each running one item at a time.
CanStart(i) ==
    /\ futures[i].state = "pending"
    /\ \A j \in 1..(i - 1) : futures[j].state # "pending"
    /\ NumRunning < max_workers
\* CanCollect in completion order (as_completed)
CanCollectAsCompleted(j) ==
    /\ ~futures[j].collected
    /\ Finished(futures[j])

\* `for future in futures`: the futures are waited for in submission order
CanCollect(j) ==
    /\ ~futures[j].collected
    /\ Finished(futures[j])
    /\ \A k \in 1..(j - 1) : futures[k].collected
\* CollectOne without the except clause
CollectOneUncaught(f) == f.result

\* what the try/except around future.result() appends for future f
CollectOne(f) ==
    IF f.state = "raised"
    THEN [color |-> "red", message |-> TxtHostCheckFailed \o f.exc]
    ELSE f.result

\* the number of addresses check_host probes: those before the first "N/A"
NumProbes(ips) ==
    IF \E k \in 1..Len(ips) : ips[k] = NA
    THEN (CHOOSE k \in 1..Len(ips) :
              ips[k] = NA /\ \A j \in 1..(k - 1) : ips[j] # NA) - 1
    ELSE Len(ips)

\* check_host from the loop on, with curls[k] what curl does for ips[k]
CheckHostLoop(host, port, ips, curls) ==
    IF NumProbes(ips) < Len(ips) THEN Unresolved(host)
    ELSE CheckHostFinish(host, port,
             [k \in 1..Len(ips) |-> ProbeOne(host, port, ips[k], curls[k])])

Files ==
    {[state |-> "ok", lines |-> l] : l \in SeqsUpTo(LineChoices, MaxLines)}
    \cup {[state |-> "missing", lines |-> <<>>],
          [state |-> "unreadable", lines |-> <<>>]}

Init ==
    /\ file \in Files
    /\ max_workers \in 1..MaxWorkers
    /\ pc = "open"
    /\ hosts = <<>>
    /\ futures = <<>>
    /\ results = <<>>
    /\ outcome = NoOutcome
    /\ invoked = <<>>
    /\ cache = <<>>
    /\ callers = <<>>
    /\ spy = NoSpy
    /\ lru = NoLru
    /\ chk = NoChk
    /\ png = NoPng
    /\ special = NoSpecial
    /\ menu = NoMenu
    /\ vh = NoVh
    /\ net = NoNet

\* lines 42-60: the file is looked for, read and filtered
Open ==
    /\ pc = "open"
    /\ IF file.state = "missing"
       THEN /\ outcome' = [kind |-> "return", value |-> <<>>]
            /\ pc' = "done"
            /\ hosts' = hosts
       ELSE IF file.state = "unreadable"
       THEN /\ outcome' = [kind |-> "raise", value |-> <<>>]
            /\ pc' = "done"
            /\ hosts' = hosts
       ELSE IF ReadHosts(file.lines) = <<>>
       THEN /\ outcome' = [kind |-> "return", value |-> <<>>]
            /\ pc' = "done"
            /\ hosts' = hosts
       ELSE /\ hosts' = ReadHosts(file.lines)
            /\ pc' = "submit"
            /\ outcome' = outcome
    /\ UNCHANGED <<vh, net, file, max_workers, futures, results, invoked,
                   cache, callers, spy, lru, chk, png, special, menu>>

\* lines 65-68: executor.submit(host_checker.check_host, host, 443, timeout)
Submit ==
    /\ pc = "submit"
    /\ futures' = Append(futures,
                         [state |-> "pending", host |-> hosts[Len(futures) + 1],
                          ips |-> <<>>, result |-> NoResult, exc |-> <<>>,
                          collected |-> FALSE])
    /\ pc' = IF Len(futures) + 1 = Len(hosts) THEN "collect" ELSE "submit"
    /\ UNCHANGED <<vh, net, file, max_workers, hosts, results, outcome,
                   invoked, cache, callers, spy, lru, chk, png, special,
                   menu>>

\* a worker starts check_host(host): get_host_ips looks into its cache
Start(i) ==
    /\ pc \in {"submit", "collect"}
    /\ CanStart(i)
    /\ invoked' = Append(invoked, futures[i].host)
    /\ IF CacheHas(cache, futures[i].host)
       THEN /\ futures' = [futures EXCEPT
                   ![i].state = "probing",
                   ![i].ips = cache[CacheGet(cache, futures[i].host)].val]
            /\ cache' = CacheTouch(cache, futures[i].host)
       ELSE /\ futures' = [futures EXCEPT ![i].state = "resolving"]
            /\ cache' = cache
    /\ UNCHANGED <<vh, net, file, max_workers, pc, hosts, results, outcome,
                   callers, spy, lru, chk, png, special, menu>>

\* dig ends for the worker of future i: get_host_ips stores and returns
DigDone(i, dig) ==
    /\ futures[i].state = "resolving"
    /\ LET val == GetHostIpsBody(dig)
       IN  /\ cache' = CacheStore(cache, futures[i].host, val)
           /\ futures' = [futures EXCEPT ![i].state = "probing", ![i].ips = val]
    /\ UNCHANGED <<vh, net, file, max_workers, pc, hosts, results, outcome,
                   invoked, callers, spy, lru, chk, png, special, menu>>

\* the worker of future i probes its addresses one after the other and
\* check_host returns
Finish(i, curls) ==
    /\ futures[i].state = "probing"
    /\ futures' = [futures EXCEPT
           ![i].state = "done",
           ![i].ips = <<>>,
           ![i].result = CheckHostLoop(futures[i].host, ScanPort,
                                       futures[i].ips, curls)]
    /\ UNCHANGED <<vh, net, file, max_workers, pc, hosts, results, outcome,
                   invoked, cache, callers, spy, lru, chk, png, special,
                   menu>>

\* check_host raises in the worker of future i: the future keeps the exception
TaskRaise(i) ==
    /\ Running(futures[i])
    /\ futures' = [futures EXCEPT ![i].state = "raised", ![i].ips = <<>>,
                                  ![i].exc = TxtBoom]
    /\ UNCHANGED <<vh, net, file, max_workers, pc, hosts, results, outcome,
                   invoked, cache, callers, spy, lru, chk, png, special,
                   menu>>

\* lines 70-75: future.result() of the next future, or its exception
Collect(j) ==
    /\ pc = "collect"
    /\ CanCollect(j)
    /\ results' = Append(results, CollectOne(futures[j]))
    /\ futures' = [futures EXCEPT ![j].collected = TRUE]
    /\ pc' = IF \A k \in 1..Len(futures) : k = j \/ futures[k].collected
             THEN "sort" ELSE "collect"
    /\ UNCHANGED <<vh, net, file, max_workers, hosts, outcome, invoked, cache,
                   callers, spy, lru, chk, png, special, menu>>

\* lines 77-90: the executor is shut down, the results are sorted and returned
Return ==
    /\ pc = "sort"
    /\ \A k \in 1..Len(futures) : Finished(futures[k])
    /\ outcome' = [kind |-> "return", value |-> SortResults(results)]
    /\ pc' = "done"
    /\ UNCHANGED <<vh, net, file, max_workers, hosts, futures, results,
                   invoked, cache, callers, spy, lru, chk, png, special,
                   menu>>

Next ==
    \/ Open
    \/ Submit
    \/ \E i \in 1..Len(futures) : Start(i)
    \/ \E i \in 1..Len(futures), dig \in ScanDigs : DigDone(i, dig)
    \/ \E i \in 1..Len(futures) :
           \E run \in ScanCurlRuns :
               Finish(i, SubSeq(run, 1, NumProbes(futures[i].ips)))
    \/ \E i \in 1..Len(futures) : TaskRaise(i)
    \/ \E j \in 1..Len(futures) : Collect(j)
    \/ Return

Spec == Init /\ [][Next]_vars

-----------------------------------------------------------------------------
(* Properties of the scan                                                  *)

\* the injective maps of 1..n into 1..n
Perms(n) == {p \in [1..n -> 1..n] : \A a, b \in 1..n : p[a] = p[b] => a = b}

\* the positions of the lines of the file that pass validate_host
ValidIdx == {i \in 1..Len(file.lines) : validate_host(file.lines[i])}

\* the k-th valid line, stripped
KthValid(k) ==
    Strip(file.lines[CHOOSE i \in ValidIdx :
                         Cardinality({j \in ValidIdx : j <= i}) = k])

Returned == pc = "done" /\ outcome.kind = "return"

\* v is results reordered
Reordered(v, rs) ==
    /\ Len(v) = Len(rs)
    /\ \E p \in Perms(Len(rs)) : \A j \in 1..Len(rs) : v[j] = rs[p[j]]

\* C1: a scan of a file with N lines, P of them blank or invalid (N > P),
\* returns N - P results: one check_host invocation per valid line, with
\* the stripped line as host, in file order (a host on two lines is
\* checked twice), and the list returned holds their results and no other.
C1_OneResultPerValidLine ==
    (pc = "done" /\ file.state = "ok" /\ ValidIdx # {}) =>
        /\ outcome.kind = "return"
        /\ Len(outcome.value) = Cardinality(ValidIdx)
        /\ Len(futures) = Cardinality(ValidIdx)
        /\ \A k \in 1..Len(futures) : futures[k].host = KthValid(k)
        /\ invoked = [k \in 1..Len(futures) |-> KthValid(k)]
        /\ Reordered(outcome.value, results)

\* a scan ended on a file that has a valid line and a blank or invalid one
C1_Witness ==
    /\ Returned
    /\ ValidIdx # {}
    /\ Cardinality(ValidIdx) < Len(file.lines)
    /\ Len(outcome.value) = Cardinality(ValidIdx)

\* every time "Response: t ms" a message shows, in hundredths
TimesOf(m) ==
    {ParseFloat(SubSeq(m, i + Len(TxtResponseKey),
                       i + Len(TxtResponseKey)
                         + RunLen(m, i + Len(TxtResponseKey)) - 1)) :
         i \in {x \in 1..Len(m) : MatchAt(m, x)}}

\* the lowest latency a host result shows, Inf when it shows none
BestLatency(r) ==
    IF TimesOf(r.message) = {} THEN Inf
    ELSE Finite(CHOOSE t \in TimesOf(r.message) :
                    \A u \in TimesOf(r.message) : t <= u)

C3_OrderIndependent ==
    (Returned /\ futures # <<>>) =>
        outcome.value =
            SortResults([k \in 1..Len(futures) |-> CollectOne(futures[k])])

\* a later future has finished while an earlier one is still running
C3_Witness ==
    /\ pc = "collect"
    /\ \E i, j \in 1..Len(futures) :
           i < j /\ Running(futures[i]) /\ Finished(futures[j])

\* C4: when a host's check_host raises, the scan still returns; the
\* host's result is the red "[Error] Host check failed: ..." and every
\* other host's result is what its check_host returned.
C4_RaisedHostIsolated ==
    (pc = "done" /\ \E k \in 1..Len(futures) : futures[k].state = "raised") =>
        /\ outcome.kind = "return"
        /\ Len(results) = Len(futures)
        /\ \A k \in 1..Len(futures) :
               IF futures[k].state = "raised"
               THEN results[k] = [color |-> "red",
                                  message |-> TxtHostCheckFailed \o futures[k].exc]
               ELSE futures[k].state = "done" /\ results[k] = futures[k].result
        /\ Reordered(outcome.value, results)

\* a scan ended in which one host's check raised and another's returned
C4_Witness ==
    /\ Returned
    /\ \E k \in 1..Len(futures) : futures[k].state = "raised"
    /\ \E k \in 1..Len(futures) : futures[k].state = "done"

\* C5: at most max_workers check_host invocations are in progress at any
\* moment, the invocations so far are those of the first hosts of the list,
\* one each, and a scan that ended has invoked check_host once per host.
C5_BoundedWorkers ==
    /\ Cardinality({i \in 1..Len(futures) : Running(futures[i])}) <= max_workers
    /\ Len(invoked) = Cardinality({i \in 1..Len(futures) :
                                       futures[i].state # "pending"})
    /\ \A k \in 1..Len(invoked) : invoked[k] = hosts[k]
    /\ (pc = "done" => invoked = hosts)

\* the pool is full and a host is waiting
C5_Witness ==
    /\ Cardinality({i \in 1..Len(futures) : Running(futures[i])}) = max_workers
    /\ \E i \in 1..Len(futures) : futures[i].state = "pending"

\* C6: on a missing or unreadable source, or one with no valid line, the
\* scan returns the empty list, raises nothing and invokes no check_host.
C6_EmptyOnBadSource ==
    (pc = "done" /\ (file.state # "ok" \/ ValidIdx = {})) =>
        /\ outcome = [kind |-> "return", value |-> <<>>]
        /\ invoked = <<>>

\* lines 42-60 end: the file is read, or found missing or unreadable
OpenEnds == pc = "open" /\ pc' \in {"submit", "done"}

\* lines 77-90 end: the executor is shut down and the sorted list returned
ReturnEnds == pc = "sort" /\ pc' = "done"

\* every lookup and probe command returns or times out: no worker stays in
\* its dig or its curl for ever
CommandsEnd ==
    \A i \in 1..MaxLines : []<>(i > Len(futures) \/ ~Running(futures[i]))

\* The scan with threads that keep running and commands that end: the
\* thread of scan_hosts_from_file goes on whenever its next statement can
\* run (a future.result() waits for its future), and a worker thread that
\* is free takes the oldest queued item.
SpecFair ==
    /\ Spec
    /\ WF_pc(OpenEnds)
    /\ WF_vars(Submit)
    /\ WF_vars(\E i \in 1..Len(futures) : Start(i))
    /\ WF_vars(\E j \in 1..Len(futures) : Collect(j))
    /\ WF_pc(ReturnEnds)
    /\ CommandsEnd

\* C30: when every lookup and probe command ends, scan_hosts_from_file ends
\* for every host file and every max_workers >= 1, also with more valid
\* hosts than workers; when it ends every evaluation it dispatched has
\* finished and was collected, and the list it returns holds the result of
\* each evaluation exactly once.
C30_ScanReturnsComplete ==
    /\ <>(pc = "done")
    /\ [](pc = "done" =>
             /\ Len(futures) = Len(hosts)
             /\ \A k \in 1..Len(futures) :
                    Finished(futures[k]) /\ futures[k].collected
             /\ outcome.kind = "return" =>
                    Reordered(outcome.value,
                              [k \in 1..Len(futures) |->
                                  CollectOne(futures[k])]))

\* a scan of more hosts than workers returned
C30_Witness ==
    /\ Returned
    /\ Len(futures) > max_workers
    /\ \A k \in 1..Len(futures) : Finished(futures[k])
    /\ Len(outcome.value) = Len(futures)

-----------------------------------------------------------------------------
(* get_host_ips called from one thread, one call after the other           *)

\* the host whose calls the log follows
Tracked == HostA

\* the n-th host nobody resolved before
FreshHost(n) == <<"h">> \o Decimal(n) \o <<".", "c", "o">>

\* One call get_host_ips(h); dig is what subprocess.run does if the call
\* gets as far as running it.  A hit returns the stored list and runs
\* nothing; a miss runs the function and stores what it returned.
Resolve(h, dig) ==
    LET hit == CacheHas(cache, h)
        ret == IF hit THEN cache[CacheGet(cache, h)].val
               ELSE GetHostIpsBody(dig)
    IN  /\ cache' = IF hit THEN CacheTouch(cache, h)
                    ELSE CacheStore(cache, h, ret)
        /\ spy' = [host |-> h, lookup |-> ~hit,
                   repeat |-> (h = Tracked /\ lru.called), ret |-> ret,
                   dig |-> IF hit THEN NoDig ELSE dig]
        /\ lru' = IF h = Tracked
                  THEN [called |-> TRUE,
                        first |-> IF lru.called THEN lru.first ELSE ret,
                        others |-> {},
                        intact |-> lru.intact
                                   /\ Cardinality(lru.others) < CacheMaxSize,
                        fresh |-> lru.fresh]
                  ELSE [lru EXCEPT
                           !.others = IF lru.called THEN @ \cup {h} ELSE @,
                           !.fresh = IF h = FreshHost(@ + 1) THEN @ + 1 ELSE @]
        /\ UNCHANGED <<vh, net, file, max_workers, pc, hosts, futures,
                       results, outcome, invoked, callers, chk, png, special,
                       menu>>

InitResolver ==
    /\ file = [state |-> "missing", lines |-> <<>>]
    /\ max_workers = 1
    /\ pc = "resolver"
    /\ hosts = <<>>
    /\ futures = <<>>
    /\ results = <<>>
    /\ outcome = NoOutcome
    /\ invoked = <<>>
    /\ cache = <<>>
    /\ callers = <<>>
    /\ spy = NoSpy
    /\ lru = NoLru
    /\ chk = NoChk
    /\ png = NoPng
    /\ special = NoSpecial
    /\ menu = NoMenu
    /\ vh = NoVh
    /\ net = NoNet

NextResolver == \E h \in {HostA, HostB}, dig \in DigOutcomes : Resolve(h, dig)

SpecResolver == InitResolver /\ [][NextResolver]_vars

\* the lines of a dig output that are addresses, stripped, in order
AddressLines(dig) ==
    LET keep == {i \in 1..Len(dig.stdout) : IsDottedQuad(Strip(dig.stdout[i]))}
        Nth(k) == CHOOSE i \in keep : Cardinality({j \in keep : j <= i}) = k
    IN  [k \in 1..Cardinality(keep) |-> Strip(dig.stdout[Nth(k)])]

\* C7: get_host_ips never returns an empty list and never raises: a call
\* returns either the IPv4 lines of a successful dig, at least one, or the
\* one-element list ["N/A"] when dig fails, times out, raises anything else
\* or prints no IPv4 line.
C7_NeverEmptyNeverRaises ==
    spy.host # <<>> =>
        /\ spy.ret # <<>>
        /\ \/ spy.ret = <<NA>>
           \/ \A k \in 1..Len(spy.ret) : IsDottedQuad(spy.ret[k])
        /\ spy.lookup =>
               IF spy.dig.kind = "ok" /\ AddressLines(spy.dig) # <<>>
               THEN spy.ret = AddressLines(spy.dig)
               ELSE spy.ret = <<NA>>

\* a dig that ended well and printed lines, none of them an address
C7_Witness ==
    /\ spy.lookup
    /\ spy.dig.kind = "ok"
    /\ spy.dig.stdout # <<>>
    /\ AddressLines(spy.dig) = <<>>
    /\ spy.ret = <<NA>>

\* C10: the list get_host_ips returns holds no address twice.
C10_NoDuplicateAddress ==
    \A a, b \in 1..Len(spy.ret) : spy.ret[a] = spy.ret[b] => a = b

-----------------------------------------------------------------------------
(* get_host_ips for one host, with calls for many other hosts in between   *)

\* how many other hosts are resolved: enough to fill the cache and push
\* an entry out of it
MaxFresh == 129

\* what dig answers for the tracked host: the record may change between
\* two look-ups
LruDigs == {DigOk(<<Ip1>>), DigOk(<<Ip2>>)}

\* get_host_ips(Tracked)
ResolveTracked == \E dig \in LruDigs : Resolve(Tracked, dig)

\* get_host_ips of a host never resolved before
ResolveFresh ==
    /\ lru.fresh < MaxFresh
    /\ Resolve(FreshHost(lru.fresh + 1), DigOk(<<Ip1>>))

\* get_host_ips, once more, of the other host resolved last
ResolveAgain ==
    /\ lru.fresh >= 1
    /\ Resolve(FreshHost(lru.fresh), DigOk(<<Ip1>>))

NextLru == ResolveTracked \/ ResolveFresh \/ ResolveAgain

SpecLru == InitResolver /\ [][NextLru]_vars

\* C8 as stated: every second and later call for a host returns the list
\* the first call returned and performs no lookup, however many other
\* hosts were resolved in between.
C8_CachedForEver ==
    (spy.host = Tracked /\ spy.repeat) =>
        ~spy.lookup /\ spy.ret = lru.first

\* C8, amended: a second or later call for a host returns the list the
\* first call returned and performs no lookup, as long as fewer than 128
\* other distinct hosts were resolved between any two consecutive calls
\* for that host.
C8_CachedWhileRecent ==
    (spy.host = Tracked /\ spy.repeat /\ lru.intact) =>
        ~spy.lookup /\ spy.ret = lru.first

\* a later call served from a cache that is full and has dropped entries
C8_Witness ==
    /\ spy.host = Tracked
    /\ spy.repeat
    /\ lru.intact
    /\ ~spy.lookup
    /\ spy.ret = lru.first
    /\ Len(cache) = CacheMaxSize
    /\ lru.fresh > CacheMaxSize

-----------------------------------------------------------------------------
(* get_host_ips called by the worker threads of a scan at the same time    *)

MaxCallers == 3

\* what dig answers a worker: the answer may differ from one run to the next
RaceDigs == {DigOk(<<Ip1>>), DigOk(<<Ip2>>), DigErr("TimeoutExpired")}

Idle(h) == [host |-> h, state |-> "idle", did |-> FALSE, ret |-> <<>>]

\* worker t enters get_host_ips: under the lock of the cache, a hit returns
\* the stored list; a miss releases the lock and goes on to run dig
Call(t) ==
    /\ callers[t].state = "idle"
    /\ IF CacheHas(cache, callers[t].host)
       THEN /\ callers' = [callers EXCEPT
                   ![t].state = "returned",
                   ![t].ret = cache[CacheGet(cache, callers[t].host)].val]
            /\ cache' = CacheTouch(cache, callers[t].host)
       ELSE /\ callers' = [callers EXCEPT ![t].state = "lookup"]
            /\ cache' = cache
    /\ UNCHANGED <<vh, net, file, max_workers, pc, hosts, futures, results,
                   outcome, invoked, spy, lru, chk, png, special, menu>>

\* dig ends for worker t: under the lock again, the list is stored unless
\* another worker stored the key meanwhile, and returned
LookupDone(t, dig) ==
    /\ callers[t].state = "lookup"
    /\ LET val == GetHostIpsBody(dig)
       IN  /\ cache' = CacheStore(cache, callers[t].host, val)
           /\ callers' = [callers EXCEPT
                  ![t].state = "returned", ![t].did = TRUE, ![t].ret = val]
    /\ UNCHANGED <<vh, net, file, max_workers, pc, hosts, futures, results,
                   outcome, invoked, spy, lru, chk, png, special, menu>>

InitRace ==
    /\ file = [state |-> "missing", lines |-> <<>>]
    /\ max_workers \in 1..MaxCallers
    /\ pc = "race"
    /\ hosts = <<>>
    /\ futures = <<>>
    /\ results = <<>>
    /\ outcome = NoOutcome
    /\ invoked = <<>>
    /\ cache = <<>>
    /\ callers \in [1..max_workers -> {Idle(HostA), Idle(HostB)}]
    /\ spy = NoSpy
    /\ lru = NoLru
    /\ chk = NoChk
    /\ png = NoPng
    /\ special = NoSpecial
    /\ menu = NoMenu
    /\ vh = NoVh
    /\ net = NoNet

NextRace ==
    \/ \E t \in 1..Len(callers) : Call(t)
    \/ \E t \in 1..Len(callers), dig \in RaceDigs : LookupDone(t, dig)

SpecRace == InitRace /\ [][NextRace]_vars

\* what the look-ups that ended so far returned, per host
Lookups ==
    {[host |-> callers[u].host, val |-> callers[u].ret] :
        u \in {t \in 1..Len(callers) : callers[t].did}}

\* C9: under every interleaving of concurrent get_host_ips calls, a call
\* returns the result of a look-up for its own host, every cache entry for a
\* host is the result of a look-up for that host that has ended, and the cache
\* keeps one entry per host and no more than its capacity.
C9_RaceLeavesCacheSound ==
    /\ \A t \in 1..Len(callers) :
           callers[t].state = "returned" =>
               [host |-> callers[t].host, val |-> callers[t].ret] \in Lookups
    /\ \A k \in 1..Len(cache) :
           [host |-> cache[k].key, val |-> cache[k].val] \in Lookups
    /\ \A j, k \in 1..Len(cache) : cache[j].key = cache[k].key => j = k
    /\ Len(cache) <= CacheMaxSize

\* two workers raced for the same host: both ran dig and got different
\* answers, and the cache holds the answer of the one that ended first
C9_Witness ==
    \E t, u \in 1..Len(callers) :
        /\ t # u
        /\ callers[t].host = callers[u].host
        /\ callers[t].did /\ callers[u].did
        /\ callers[t].ret # callers[u].ret
        /\ CacheHas(cache, callers[t].host)
        /\ cache[CacheGet(cache, callers[t].host)].val = callers[t].ret

-----------------------------------------------------------------------------
(* host_checker.check_host called on its own, one address after the other  *)

HostRedirect == <<"R", "e", "d", "i", "r", "e", "c", "t", ".", "c", "o">>

Status500Odd ==
    <<"H", "T", "T", "P", "/", "1", ".", "1", " ", "5", "0", "0", " ", "E",
      "x", "p", "e", "c", "t", "e", "d", " ", "2", "0", "0">>

\* a status line whose reason phrase reads like a latency
Status500Timed ==
    <<"H", "T", "T", "P", "/", "1", ".", "1", " ", "5", "0", "0", " ", "R",
      "e", "s", "p", "o", "n", "s", "e", ":", " ", "9", " ", "m", "s">>

StderrRefused == <<" ", "r", "e", "f", "u", "s", "e", "d", "\n">>

MaxAddrs == 2

\* what dig answers: up to MaxAddrs addresses, one of them possibly twice,
\* or nothing
CheckDigs ==
    {DigOk(l) : l \in SeqsUpTo({Ip1, Ip2}, MaxAddrs) \ {<<>>}}
    \cup {DigErr("TimeoutExpired")}

\* what curl does for one address
CheckCurls ==
    {CurlOk(Status200, 1004), CurlOk(Status301, 1004), CurlOk(Status200, 2000),
     CurlOk(Status500, 1500), CurlOk(Status500Odd, 1500),
     CurlOk(Status500Timed, 1500),
     [CurlOk(<<>>, 700) EXCEPT !.stdout = <<>>],
     CurlErr("CalledProcessError", StderrRefused, <<>>),
     CurlErr("TimeoutExpired", <<>>, <<>>),
     CurlErr("Exception", <<>>, TxtBoom)}

scanVars == <<file, max_workers, pc, hosts, futures, results, outcome, invoked>>

\* lines 88-89: check_host(host, port) starts and calls get_host_ips(host)
CheckHostCall(host, port, dig) ==
    /\ chk.state = "idle"
    /\ LET hit == CacheHas(cache, host)
           ips == IF hit THEN cache[CacheGet(cache, host)].val
                  ELSE GetHostIpsBody(dig)
       IN  /\ cache' = IF hit THEN CacheTouch(cache, host)
                       ELSE CacheStore(cache, host, ips)
           /\ chk' = [NoChk EXCEPT !.state = "loop", !.host = host,
                                   !.port = port, !.ips = ips,
                                   !.dig = IF hit THEN NoDig ELSE dig]
    /\ UNCHANGED <<vh, net, scanVars, callers, spy, lru, png, special, menu>>

\* lines 92-94: the next address is "N/A": check_host returns at once
CheckHostUnresolved ==
    /\ chk.state = "loop"
    /\ Len(chk.probes) < Len(chk.ips)
    /\ IsSentinel(chk.ips[Len(chk.probes) + 1])
    /\ chk' = [chk EXCEPT !.state = "done", !.result = Unresolved(chk.host)]
    /\ UNCHANGED <<vh, net, scanVars, cache, callers, spy, lru, png, special,
                   menu>>

\* lines 95-170: curl is run for the next address and its outcome appended
CheckHostProbe(curl) ==
    /\ chk.state = "loop"
    /\ Len(chk.probes) < Len(chk.ips)
    /\ LET ip == chk.ips[Len(chk.probes) + 1]
       IN  /\ ~IsSentinel(ip)
           /\ chk' = [chk EXCEPT
                  !.probes = Append(@, ProbeOne(chk.host, chk.port, ip, curl)),
                  !.cmds = Append(@, [ip |-> ip, curl |-> curl])]
    /\ UNCHANGED <<vh, net, scanVars, cache, callers, spy, lru, png, special,
                   menu>>

\* lines 172-184: after the last address
CheckHostReturn ==
    /\ chk.state = "loop"
    /\ Len(chk.probes) = Len(chk.ips)
    /\ chk' = [chk EXCEPT
           !.state = "done",
           !.result = CheckHostFinish(chk.host, chk.port, chk.probes)]
    /\ UNCHANGED <<vh, net, scanVars, cache, callers, spy, lru, png, special,
                   menu>>

NextCheckHost ==
    \/ \E host \in {HostA, HostRedirect}, port \in {ScanPort, 80},
          dig \in CheckDigs : CheckHostCall(host, port, dig)
    \/ CheckHostUnresolved
    \/ \E curl \in CheckCurls : CheckHostProbe(curl)
    \/ CheckHostReturn

SpecCheckHost == InitResolver /\ [][NextCheckHost]_vars


StartsWith(m, w) == Len(m) >= Len(w) /\ SubSeq(m, 1, Len(w)) = w

\* the status an outcome line announces
StatusOf(m) ==
    IF StartsWith(m, TxtPrefix200) THEN "OK"
    ELSE IF StartsWith(m, TxtPrefixRedirect) THEN "Redirect"
    ELSE IF StartsWith(m, TxtPrefixFailed) THEN "Failed"
    ELSE IF StartsWith(m, TxtPrefixTimeout) THEN "Timeout"
    ELSE IF StartsWith(m, TxtPrefixError) THEN "Error"
    ELSE "none"

\* the outcome lines of a result, best first
Outcomes(result) == Split(result.message, "\n")

CheckHostDone == chk.state = "done"

\* check_host went through the loop: every address was probed
Probed == CheckHostDone /\ Len(chk.cmds) = Len(chk.ips)

\* the latency of the outcome of the k-th address: the time measured for
\* an OK or Redirect outcome, none for the others
Latency(k) ==
    IF StatusOf(chk.probes[k].item) \in {"OK", "Redirect"}
    THEN Finite(chk.cmds[k].curl.rt) ELSE Inf

\* C11: when get_host_ips returns the sentinel, check_host returns one
\* outcome, of status Error and colour red, and runs no probe command.
C11_UnresolvedFailsFast ==
    (CheckHostDone /\ chk.ips = <<NA>>) =>
        /\ chk.cmds = <<>>
        /\ chk.result.color = "red"
        /\ Len(Outcomes(chk.result)) = 1
        /\ StatusOf(chk.result.message) = "Error"

C11_Witness == CheckHostDone /\ chk.ips = <<NA>> /\ chk.result = Unresolved(chk.host)

\* C12: the outcomes of a host are returned by latency ascending, every
\* Failed, Timeout or Error outcome after every OK or Redirect outcome, and
\* outcomes of equal latency in the order of their addresses.
C12_OutcomesRanked ==
    Probed =>
        \E p \in Perms(Len(chk.probes)) :
            /\ Outcomes(chk.result) =
                   [j \in 1..Len(chk.probes) |-> chk.probes[p[j]].item]
            /\ \A a, b \in 1..Len(chk.probes) :
                   a < b =>
                       /\ KeyLE(Latency(p[a]), Latency(p[b]))
                       /\ (Latency(p[a]) = Latency(p[b]) => p[a] < p[b])
                       /\ (StatusOf(chk.probes[p[a]].item)
                               \in {"Failed", "Timeout", "Error"}
                           => StatusOf(chk.probes[p[b]].item)
                               \in {"Failed", "Timeout", "Error"})

\* the second address answered faster than the first and is returned first
C12_Witness ==
    /\ Probed
    /\ Len(chk.probes) >= 2
    /\ Latency(1) # Inf
    /\ Latency(2) # Latency(1) /\ KeyLE(Latency(2), Latency(1))
    /\ Outcomes(chk.result)[1] = chk.probes[2].item

\* C13: when an OK outcome and a Redirect outcome have the same latency
\* and none is faster, the best outcome of the host is the OK one.
C13_OkBeatsRedirectOnTie ==
    Probed =>
        \A a, b \in 1..Len(chk.probes) :
            (/\ StatusOf(chk.probes[a].item) = "OK"
             /\ StatusOf(chk.probes[b].item) = "Redirect"
             /\ Latency(a) = Latency(b)
             /\ \A c \in 1..Len(chk.probes) : KeyLE(Latency(a), Latency(c)))
            => /\ StatusOf(Outcomes(chk.result)[1]) = "OK"
               /\ chk.result.color = "green"

\* C14: the colour is green exactly when the best outcome is OK, yellow
\* exactly when it is Redirect, red otherwise, whatever the host is called
\* and whatever a failed outcome says.
C14_SeverityFromBestStatus ==
    CheckHostDone =>
        LET best == StatusOf(Outcomes(chk.result)[1])
        IN  /\ chk.result.color = "green" <=> best = "OK"
            /\ chk.result.color = "yellow" <=> best = "Redirect"
            /\ chk.result.color = "red" <=> best \notin {"OK", "Redirect"}

\* the status code of a status line: its second word
StatusCode(line) ==
    LET words == Split(line, " ")
    IN  IF Len(words) >= 2 THEN words[2] ELSE <<>>

\* the commands that got a response
Answered == {k \in 1..Len(chk.cmds) :
                chk.cmds[k].curl.kind = "ok" /\ chk.cmds[k].curl.stdout # <<>>}

\* C15: an outcome is OK exactly when the status code of the response is
\* 200, Redirect exactly when it is 301 or 302, and Failed, with the status
\* line in its text, for every other code.
C15_ClassifiedByStatusCode ==
    \A k \in Answered :
        LET line == chk.cmds[k].curl.stdout[1]
            code == StatusCode(line)
            status == StatusOf(chk.probes[k].item)
        IN  /\ status = "OK" <=> code = Txt200
            /\ status = "Redirect" <=> code \in {Txt301, Txt302}
            /\ code \notin {Txt200, Txt301, Txt302} =>
                   status = "Failed" /\ Contains(chk.probes[k].item, line)

\* the commands that got no response
Unanswered == (1..Len(chk.cmds)) \ Answered

\* C16 as stated: a probe without a response is Timeout if it exceeded its
\* timeout and Error for every other failure, a non-zero exit of curl
\* included.
C16_NoResponseTimeoutOrError ==
    \A k \in Unanswered :
        StatusOf(chk.probes[k].item) =
            IF chk.cmds[k].curl.kind = "TimeoutExpired" THEN "Timeout"
            ELSE "Error"

\* C16, amended: a probe without a response is Timeout if it exceeded its
\* timeout, Failed with "curl error:" and the stripped stderr if curl ended
\* with a non-zero exit code, and Error for every other failure.
C16_NoResponseTimeoutFailedOrError ==
    \A k \in Unanswered :
        LET kind == chk.cmds[k].curl.kind
            item == chk.probes[k].item
        IN  /\ chk.probes[k].key = Inf
            /\ StatusOf(item) =
                   IF kind = "TimeoutExpired" THEN "Timeout"
                   ELSE IF kind = "CalledProcessError" THEN "Failed"
                   ELSE "Error"
            /\ kind = "CalledProcessError" =>
                   Contains(item, TxtCurlError \o Strip(chk.cmds[k].curl.stderr))

\* curl ended with a non-zero exit code and the outcome is Failed
C16_Witness ==
    \E k \in Unanswered :
        /\ chk.cmds[k].curl.kind = "CalledProcessError"
        /\ StatusOf(chk.probes[k].item) = "Failed"
        /\ CheckHostDone /\ chk.result.color = "red"

\* C25: for a host that resolves to k addresses check_host runs exactly k
\* probe commands, one after the other and one per address in resolution
\* order, probes no address a second time, and returns exactly k outcomes.
C25_OneProbePerAddress ==
    (chk.state # "idle" /\ chk.ips # <<NA>>) =>
        /\ Len(chk.cmds) <= Len(chk.ips)
        /\ Len(chk.probes) = Len(chk.cmds)
        /\ \A k \in 1..Len(chk.cmds) : chk.cmds[k].ip = chk.ips[k]
        /\ \A j, k \in 1..Len(chk.cmds) :
               j # k => chk.cmds[j].ip # chk.cmds[k].ip
        /\ CheckHostDone =>
               /\ Len(chk.cmds) = Len(chk.ips)
               /\ Len(Outcomes(chk.result)) = Len(chk.ips)

\* the latency file_handler reads from an outcome line
LatencyField(item) == extract_response_time([message |-> item])

\* C26: an outcome of check_host has a finite latency, and a
\* "Response: ... ms" field in its message, exactly when its status is OK
\* or Redirect; a Failed, Timeout or Error outcome has the infinite sort
\* key and no latency field.
C26_LatencyOnlyWhenTimed ==
    \A k \in 1..Len(chk.probes) :
        LET timed == StatusOf(chk.probes[k].item) \in {"OK", "Redirect"}
        IN  /\ chk.probes[k].key # Inf <=> timed
            /\ LatencyField(chk.probes[k].item) # Inf <=> timed

-----------------------------------------------------------------------------
(* host_checker.check_ping                                                 *)

TxtPrefixPingOk == <<"[", "P", "i", "n", "g", " ", "O", "K", "]", " ">>

TxtPrefixPingUnreachable ==
    <<"[", "P", "i", "n", "g", " ", "U", "n", "r", "e", "a", "c", "h", "a",
      "b", "l", "e", "]", " ">>

TxtLatency == <<")", " ", "l", "a", "t", "e", "n", "c", "y", ":", " ">>

TxtMsEnd == <<" ", "m", "s">>

TxtMayBlock ==
    <<")", " ", "m", "a", "y", " ", "b", "l", "o", "c", "k", " ", "I", "C",
      "M", "P", ".", " ", "S", "t", "d", "e", "r", "r", ":", " ">>

TxtHttpsTest ==
    <<"\n", "H", "T", "T", "P", "S", " ", "T", "e", "s", "t", ":", "\n">>

TxtRtt ==
    <<"r", "t", "t", " ", "m", "i", "n", "/", "a", "v", "g", "/", "m", "a",
      "x", "/", "m", "d", "e", "v", " ", "=", " ">>

PingStats ==
    <<"4", " ", "r", "e", "c", "e", "i", "v", "e", "d", "\n", "r", "t", "t",
      " ", "m", "i", "n", "/", "a", "v", "g", "/", "m", "a", "x", "/", "m",
      "d", "e", "v", " ", "=", " ", "1", ".", "0", "/", "2", ".", "5", "/",
      "3", ".", "0", "/", "0", ".", "5", " ", "m", "s", "\n">>

PingNoStats == <<"4", " ", "r", "e", "c", "e", "i", "v", "e", "d", "\n">>

StderrUnreachable ==
    <<"D", "e", "s", "t", "i", "n", "a", "t", "i", "o", "n", " ", "H", "o",
      "s", "t", " ", "U", "n", "r", "e", "a", "c", "h", "a", "b", "l", "e",
      "\n">>

\* r"rtt min/avg/max/mdev = [\d.]+/([\d.]+)/" is found in s at position i:
\* the group, or <<>> when it is not
RttGroupAt(s, i) ==
    LET j == i + Len(TxtRtt)
        n == RunLen(s, j)
        k == j + n + 1
        g == RunLen(s, k)
    IN  IF /\ Slice(s, i, j - 1) = TxtRtt
           /\ n >= 1 /\ j + n <= Len(s) /\ s[j + n] = "/"
           /\ g >= 1 /\ k + g <= Len(s) /\ s[k + g] = "/"
        THEN SubSeq(s, k, k + g - 1)
        ELSE <<>>

\* lines 220-223: the average latency of the ping output, or "N/A"
PingLatency(stdout) ==
    LET hits == {i \in 1..Len(stdout) : RttGroupAt(stdout, i) # <<>>}
    IN  IF hits = {} THEN NA
        ELSE RttGroupAt(stdout, CHOOSE i \in hits : \A j \in hits : i <= j)

\* ping is what subprocess.run did: [kind, stdout, stderr, err]
PingOutcomes ==
    {[kind |-> "ok", stdout |-> PingStats, stderr |-> <<>>, err |-> <<>>],
     [kind |-> "ok", stdout |-> PingNoStats, stderr |-> <<>>, err |-> <<>>],
     [kind |-> "CalledProcessError", stdout |-> <<>>,
      stderr |-> StderrUnreachable, err |-> <<>>],
     [kind |-> "TimeoutExpired", stdout |-> <<>>, stderr |-> <<>>, err |-> <<>>],
     [kind |-> "Exception", stdout |-> <<>>, stderr |-> <<>>, err |-> TxtBoom]}

PingDigs == {DigOk(<<Ip1>>), DigOk(<<Ip2, Ip1>>), DigErr("TimeoutExpired")}

\* a check_ping that falls back to the HTTPS test on a timeout only
NeedsFallbackTimeoutOnly(kind) == kind = "TimeoutExpired"

\* lines 225, 235: the exceptions whose handlers call check_host
NeedsFallback(kind) == kind \in {"CalledProcessError", "TimeoutExpired"}

\* lines 202-205: check_ping(host) starts: get_host_ips(host)[0]
PingCall(host, dig) ==
    /\ png.state \in {"idle", "done"}
    /\ LET hit == CacheHas(cache, host)
           ips == IF hit THEN cache[CacheGet(cache, host)].val
                  ELSE GetHostIpsBody(dig)
       IN  /\ cache' = IF hit THEN CacheTouch(cache, host)
                       ELSE CacheStore(cache, host, ips)
           /\ png' = IF IsSentinel(ips[1])
                     THEN [NoPng EXCEPT !.state = "done", !.host = host,
                                        !.dig = IF hit THEN NoDig ELSE dig,
                                        !.ip = ips[1],
                                        !.result = Unresolved(host)]
                     ELSE [NoPng EXCEPT !.state = "pinging", !.host = host,
                                        !.dig = IF hit THEN NoDig ELSE dig,
                                        !.ip = ips[1]]
    /\ UNCHANGED <<vh, net, scanVars, callers, spy, lru, chk, special, menu>>

\* lines 206-224, 245-247: ping ends well, or with an exception without
\* a fallback
PingDone(ping) ==
    /\ png.state = "pinging"
    /\ ~NeedsFallback(ping.kind)
    /\ png' = [png EXCEPT
           !.state = "done",
           !.pings = Append(@, [ip |-> png.ip, kind |-> ping.kind]),
           !.result =
               IF ping.kind = "ok"
               THEN [color |-> "spring_green2",
                     message |-> TxtPrefixPingOk \o png.host \o TxtIp \o png.ip
                                 \o TxtLatency \o PingLatency(ping.stdout)
                                 \o TxtMsEnd]
               ELSE [color |-> "red",
                     message |-> TxtPrefixError \o png.host \o TxtIp \o png.ip
                                 \o TxtFailed
                                 \o (IF ping.kind = "CalledProcessError"
                                     THEN Strip(ping.stderr) ELSE ping.err)]]
    /\ UNCHANGED <<vh, net, scanVars, cache, callers, spy, lru, chk, special,
                   menu>>

\* a check_ping that hands on the colour of the HTTPS test
FallbackColorOfTest(kind, fb) == fb.color

\* lines 231-232, 241-242: the colour check_ping returns after the HTTPS
\* test, whose colour it drops
FallbackColor(kind, fb) ==
    IF kind = "CalledProcessError" THEN "yellow" ELSE "orange3"

\* lines 225-244: ping fails or times out: check_host(host) is called, with
\* dig and curls what its commands do, and its message embedded
PingFallback(ping, dig, curls) ==
    /\ png.state = "pinging"
    /\ NeedsFallback(ping.kind)
    /\ LET hit == CacheHas(cache, png.host)
           ips == IF hit THEN cache[CacheGet(cache, png.host)].val
                  ELSE GetHostIpsBody(dig)
           fb == CheckHostLoop(png.host, ScanPort, ips,
                               SubSeq(curls, 1, NumProbes(ips)))
       IN  /\ cache' = IF hit THEN CacheTouch(cache, png.host)
                       ELSE CacheStore(cache, png.host, ips)
           /\ png' = [png EXCEPT
                  !.state = "done",
                  !.pings = Append(@, [ip |-> png.ip, kind |-> ping.kind]),
                  !.fallbacks = Append(@, [host |-> png.host, result |-> fb]),
                  !.result =
                      IF ping.kind = "CalledProcessError"
                      THEN [color |-> FallbackColor(ping.kind, fb),
                            message |-> TxtPrefixPingUnreachable \o png.host
                                        \o TxtIp \o png.ip \o TxtMayBlock
                                        \o Strip(ping.stderr) \o TxtHttpsTest
                                        \o fb.message]
                      ELSE [color |-> FallbackColor(ping.kind, fb),
                            message |-> TxtPrefixTimeout \o png.host \o TxtIp
                                        \o png.ip \o TxtTookTooLong
                                        \o TxtHttpsTest \o fb.message]]
    /\ UNCHANGED <<vh, net, scanVars, callers, spy, lru, chk, special, menu>>

NextPing ==
    \/ \E host \in {HostA, HostB}, dig \in PingDigs : PingCall(host, dig)
    \/ \E ping \in PingOutcomes : PingDone(ping)
    \/ \E ping \in PingOutcomes, dig \in PingDigs, curls \in ScanCurlRuns :
           PingFallback(ping, dig, curls)

SpecPing == InitResolver /\ [][NextPing]_vars

EndsWith(m, w) ==
    Len(m) >= Len(w) /\ SubSeq(m, Len(m) - Len(w) + 1, Len(m)) = w

\* C17: check_ping calls check_host exactly once when the ping times out
\* (status Timeout) and exactly once when it fails (status Ping
\* Unreachable), with the message of check_host in its own; it does not
\* call it when the ping succeeds (status Ping OK), and when the host is
\* unresolved it neither pings nor calls it (status Error).
C17_FallbackExactlyOnce ==
    png.state = "done" =>
        IF png.ip = NA
        THEN /\ png.pings = <<>> /\ png.fallbacks = <<>>
             /\ png.result.color = "red"
             /\ StartsWith(png.result.message, TxtPrefixError)
        ELSE /\ Len(png.pings) = 1
             /\ png.pings[1].kind = "ok" =>
                    /\ png.fallbacks = <<>>
                    /\ StartsWith(png.result.message, TxtPrefixPingOk)
             /\ png.pings[1].kind = "TimeoutExpired" =>
                    /\ Len(png.fallbacks) = 1
                    /\ png.fallbacks[1].host = png.host
                    /\ StartsWith(png.result.message, TxtPrefixTimeout)
                    /\ EndsWith(png.result.message,
                                TxtHttpsTest \o png.fallbacks[1].result.message)
             /\ png.pings[1].kind = "CalledProcessError" =>
                    /\ Len(png.fallbacks) = 1
                    /\ png.fallbacks[1].host = png.host
                    /\ StartsWith(png.result.message, TxtPrefixPingUnreachable)
                    /\ EndsWith(png.result.message,
                                TxtHttpsTest \o png.fallbacks[1].result.message)

\* the ping failed and the HTTPS test, run once, found the host active
C17_Witness ==
    /\ png.state = "done"
    /\ png.pings = <<[ip |-> png.ip, kind |-> "CalledProcessError"]>>
    /\ Len(png.fallbacks) = 1
    /\ png.fallbacks[1].result.color = "green"
    /\ png.result.color = "yellow"

\* check_ping returned after the HTTPS test
FellBack == png.state = "done" /\ Len(png.fallbacks) = 1

\* C27 as stated: after a ping that timed out or failed, the colour of the
\* combined result follows the classification of the HTTPS test: with the
\* opposite classification of the test it would be another colour.
C27_FallbackDrivesSeverity ==
    FellBack =>
        LET kind == png.pings[1].kind
            fb == png.fallbacks[1].result
            other == [fb EXCEPT !.color = IF @ = "green" THEN "red"
                                          ELSE "green"]
        IN  /\ png.result.color = FallbackColor(kind, fb)
            /\ FallbackColor(kind, fb) # FallbackColor(kind, other)

\* C27, amended: after a ping that failed the combined result is yellow and
\* after a ping that timed out it is orange3, whatever the HTTPS test found;
\* the test contributes its message only.
C27_SeverityFixedByPing ==
    FellBack =>
        /\ png.pings[1].kind = "CalledProcessError"
               => png.result.color = "yellow"
        /\ png.pings[1].kind = "TimeoutExpired"
               => png.result.color = "orange3"
        /\ EndsWith(png.result.message,
                    TxtHttpsTest \o png.fallbacks[1].result.message)

\* the ping timed out, the HTTPS test failed and the result is orange3
C27_Witness ==
    /\ FellBack
    /\ png.pings[1].kind = "TimeoutExpired"
    /\ png.fallbacks[1].result.color = "red"
    /\ png.result.color = "orange3"

-----------------------------------------------------------------------------
(* utils.validate_uuid, special_checks.check_vmess_trojan and              *)
(* special_checks.check_quota_bug                                          *)

Alphabet ==
    <<"a", "b", "c", "d", "e", "f", "g", "h", "i", "j", "k", "l", "m",
      "n", "o", "p", "q", "r", "s", "t", "u", "v", "w", "x", "y", "z">>

Capitals ==
    <<"A", "B", "C", "D", "E", "F", "G", "H", "I", "J", "K", "L", "M",
      "N", "O", "P", "Q", "R", "S", "T", "U", "V", "W", "X", "Y", "Z">>

\* str.lower() and str.upper()
ToLower(s) ==
    [i \in 1..Len(s) |->
        IF \E k \in 1..26 : Capitals[k] = s[i]
        THEN Alphabet[CHOOSE k \in 1..26 : Capitals[k] = s[i]] ELSE s[i]]

ToUpper(s) ==
    [i \in 1..Len(s) |->
        IF \E k \in 1..26 : Alphabet[k] = s[i]
        THEN Capitals[CHOOSE k \in 1..26 : Alphabet[k] = s[i]] ELSE s[i]]

HexLower == Digits \cup {"a", "b", "c", "d", "e", "f"}

\* [0-9a-f]{8}-[0-9a-f]{4}-[0-9a-f]{4}-[0-9a-f]{4}-[0-9a-f]{12}
UuidShape(u) ==
    /\ Len(u) = 36
    /\ \A i \in 1..36 :
           IF i \in {9, 14, 19, 24} THEN u[i] = "-" ELSE u[i] \in HexLower

\* re.match(r"^...$", uuid): "$" matches at the end of the string and also
\* before a newline that ends it
validate_uuid(u) ==
    \/ UuidShape(u)
    \/ Len(u) = 37 /\ u[37] = "\n" /\ UuidShape(SubSeq(u, 1, 36))

TxtInvalidUuid ==
    <<"I", "n", "v", "a", "l", "i", "d", " ", "U", "U", "I", "D", " ", "f",
      "o", "r", "m", "a", "t", " ", "f", "o", "r", " ">>

TxtDot == <<".">>

TxtTrojanShort ==
    <<"T", "r", "o", "j", "a", "n", " ", "p", "a", "s", "s", "w", "o", "r",
      "d", " ", "m", "u", "s", "t", " ", "b", "e", " ", "a", "t", " ", "l",
      "e", "a", "s", "t", " ", "8", " ", "c", "h", "a", "r", "a", "c", "t",
      "e", "r", "s", " ", "f", "o", "r", " ">>

TxtPortOpen == <<" ", "(", "P", "o", "r", "t", ":", " ">>

TxtPath == <<",", " ", "P", "a", "t", "h", ":", " ">>

TxtTls == <<",", " ", "T", "L", "S", ":", " ">>

TxtTrue == <<"T", "r", "u", "e">>

TxtFalse == <<"F", "a", "l", "s", "e">>

TxtVmessOk == <<"[", "V", "M", "E", "S", "S", " ", "O", "K", "]", " ">>

TxtVmessWarning ==
    <<"[", "V", "M", "E", "S", "S", " ", "W", "a", "r", "n", "i", "n", "g",
      "]", " ">>

TxtTrojanOk == <<"[", "T", "R", "O", "J", "A", "N", " ", "O", "K", "]", " ">>

TxtTrojanWarning ==
    <<"[", "T", "R", "O", "J", "A", "N", " ", "W", "a", "r", "n", "i", "n",
      "g", "]", " ">>

TxtValidJson ==
    <<")", " ", "i", "s", " ", "r", "e", "a", "c", "h", "a", "b", "l", "e",
      " ", "w", "i", "t", "h", " ", "v", "a", "l", "i", "d", " ", "J", "S",
      "O", "N", " ", "r", "e", "s", "p", "o", "n", "s", "e", ".">>

TxtNonJson ==
    <<")", " ", "c", "o", "n", "n", "e", "c", "t", "e", "d", " ", "b", "u",
      "t", " ", "r", "e", "c", "e", "i", "v", "e", "d", " ", "n", "o", "n",
      "-", "J", "S", "O", "N", " ", "r", "e", "s", "p", "o", "n", "s", "e",
      ".">>

TxtReachable ==
    <<")", " ", "i", "s", " ", "r", "e", "a", "c", "h", "a", "b", "l", "e",
      ".">>

TxtEmptyResponse ==
    <<")", " ", "c", "o", "n", "n", "e", "c", "t", "e", "d", " ", "b", "u",
      "t", " ", "r", "e", "c", "e", "i", "v", "e", "d", " ", "e", "m", "p",
      "t", "y", " ", "r", "e", "s", "p", "o", "n", "s", "e", ".">>

TxtErrorTag == <<" ", "E", "r", "r", "o", "r", "]", " ">>

TxtQuotaOk ==
    <<"[", "Q", "u", "o", "t", "a", " ", "B", "u", "g", " ", "O", "K", "]",
      " ">>

TxtQuotaPartial ==
    <<"[", "Q", "u", "o", "t", "a", " ", "B", "u", "g", " ", "P", "a", "r",
      "t", "i", "a", "l", "]", " ">>

TxtQuotaFailed ==
    <<"[", "Q", "u", "o", "t", "a", " ", "B", "u", "g", " ", "F", "a", "i",
      "l", "e", "d", "]", " ">>

TxtQuotaError ==
    <<"[", "Q", "u", "o", "t", "a", " ", "B", "u", "g", " ", "E", "r", "r",
      "o", "r", "]", " ">>

TxtAllows ==
    <<")", " ", "a", "l", "l", "o", "w", "s", " ", "a", "c", "c", "e", "s",
      "s", " ", "w", "i", "t", "h", " ", "e", "d", "u", "k", "a", "s", "i",
      " ", "h", "e", "a", "d", "e", "r", ",", " ", "c", "o", "n", "t", "a",
      "i", "n", "s", " ", "e", "x", "p", "e", "c", "t", "e", "d", " ", "c",
      "o", "n", "t", "e", "n", "t", ",", " ", "a", "n", "d", " ", "v", "a",
      "l", "i", "d", " ", "h", "e", "a", "d", "e", "r", "!">>

TxtMissing ==
    <<")", " ", "r", "e", "t", "u", "r", "n", "e", "d", " ", "2", "0", "0",
      " ", "b", "u", "t", " ", "m", "i", "s", "s", "i", "n", "g", " ", "e",
      "x", "p", "e", "c", "t", "e", "d", " ", "c", "o", "n", "t", "e", "n",
      "t", " ", "o", "r", " ", "h", "e", "a", "d", "e", "r", ".">>

TxtRuangguru == <<"r", "u", "a", "n", "g", "g", "u", "r", "u">>

Vmess == <<"v", "m", "e", "s", "s">>

Trojan == <<"t", "r", "o", "j", "a", "n">>

MinTrojanLen == 8

HttpOk == 200

\* json.loads(text) succeeds; the documents told apart are the ones the
\* server answers below
JsonLoads(text) ==
    LET t == Strip(text)
    IN  \/ t \in {<<"{", "}">>, <<"[", "]">>, <<"t", "r", "u", "e">>,
                  <<"n", "u", "l", "l">>}
        \/ t # <<>> /\ AllIn(t, Digits) /\ (Len(t) = 1 \/ t[1] # "0")

\* A reply that came in a binary frame is bytes; "0xff" stands for a byte
\* that is no UTF-8 text
InvalidUtf8 == {"0xff"}

\* json.loads decodes a bytes reply as UTF-8 before it parses it, and raises
\* UnicodeDecodeError, which is no JSONDecodeError, when that fails
Utf8Decodes(reply) == \A i \in 1..Len(reply) : reply[i] \notin InvalidUtf8

TxtCantDecode ==
    <<"'", "u", "t", "f", "-", "8", "'", " ", "c", "o", "d", "e", "c", " ",
      "c", "a", "n", "'", "t", " ", "d", "e", "c", "o", "d", "e", " ", "b",
      "y", "t", "e", " ", "0", "x", "f", "f", " ", "i", "n", " ", "p", "o",
      "s", "i", "t", "i", "o", "n", " ", "0", ":", " ", "i", "n", "v", "a",
      "l", "i", "d", " ", "s", "t", "a", "r", "t", " ", "b", "y", "t", "e">>

\* ws is what the WebSocket did: [kind, response, err], kind "ok" when
\* connect, send, recv and close all returned, else the exception raised.
\* The result is [opened, raised, result]: the connections opened, the
\* exception that left the function if any, and what it returned.
check_vmess_trojan(host, port, path, protocol, cred, use_tls, ws) ==
    LET where == host \o TxtPortOpen \o Decimal(port) \o TxtPath \o path
                 \o TxtTls \o (IF use_tls THEN TxtTrue ELSE TxtFalse)
        Ret(n, color, message) ==
            [opened |-> n, raised |-> "none",
             result |-> [color |-> color, message |-> message]]
    IN  IF protocol = Vmess /\ ~validate_uuid(cred)
        THEN Ret(0, "red", TxtPrefixError \o TxtInvalidUuid \o host \o TxtDot)
        ELSE IF protocol = Trojan /\ Len(cred) < MinTrojanLen
        THEN Ret(0, "red", TxtPrefixError \o TxtTrojanShort \o host \o TxtDot)
        ELSE IF ws.kind # "ok"
        THEN Ret(1, "red", <<"[">> \o ToUpper(protocol) \o TxtErrorTag \o where
                           \o TxtFailed \o ws.err)
        ELSE IF protocol = Vmess
        THEN IF ~Utf8Decodes(ws.response)
             THEN Ret(1, "red", <<"[">> \o ToUpper(protocol) \o TxtErrorTag
                                \o where \o TxtFailed \o TxtCantDecode)
             ELSE IF JsonLoads(ws.response)
             THEN Ret(1, "green", TxtVmessOk \o where \o TxtValidJson)
             ELSE Ret(1, "yellow", TxtVmessWarning \o where \o TxtNonJson)
        ELSE IF ws.response # <<>>
        THEN Ret(1, "green", TxtTrojanOk \o where \o TxtReachable)
        ELSE Ret(1, "yellow", TxtTrojanWarning \o where \o TxtEmptyResponse)

\* check_quota_bug without the test of the response header
check_quota_bug_no_header(host, port, http) ==
    LET where == host \o TxtPortOpen \o Decimal(port)
        Ret(color, message) ==
            [opened |-> 1, raised |-> "none",
             result |-> [color |-> color, message |-> message]]
    IN  IF http.kind = "ok"
        THEN IF /\ http.status = HttpOk
                /\ Contains(ToLower(http.text), TxtRuangguru)
             THEN Ret("green", TxtQuotaOk \o where \o TxtAllows)
             ELSE IF http.status = HttpOk
             THEN Ret("yellow", TxtQuotaPartial \o where \o TxtMissing)
             ELSE Ret("yellow", TxtQuotaFailed \o where \o TxtReturned
                                \o Decimal(http.status) \o TxtDot)
        ELSE IF http.kind = "RequestException"
        THEN Ret("red", TxtQuotaError \o where \o TxtFailed \o http.err)
        ELSE [opened |-> 1, raised |-> http.kind, result |-> NoResult]

\* http is what requests.get did: [kind, status, text, xheader, err], kind
\* "ok" for a response, else the exception raised
check_quota_bug(host, port, http) ==
    LET where == host \o TxtPortOpen \o Decimal(port)
        Ret(color, message) ==
            [opened |-> 1, raised |-> "none",
             result |-> [color |-> color, message |-> message]]
    IN  IF http.kind = "ok"
        THEN IF /\ http.status = HttpOk
                /\ Contains(ToLower(http.text), TxtRuangguru)
                /\ http.xheader
             THEN Ret("green", TxtQuotaOk \o where \o TxtAllows)
             ELSE IF http.status = HttpOk
             THEN Ret("yellow", TxtQuotaPartial \o where \o TxtMissing)
             ELSE Ret("yellow", TxtQuotaFailed \o where \o TxtReturned
                                \o Decimal(http.status) \o TxtDot)
        ELSE IF http.kind = "RequestException"
        THEN Ret("red", TxtQuotaError \o where \o TxtFailed \o http.err)
        ELSE [opened |-> 1, raised |-> http.kind, result |-> NoResult]

UuidGood ==
    <<"0", "a", "1", "b", "2", "c", "3", "d", "-", "4", "e", "5", "f", "-",
      "6", "7", "8", "9", "-", "a", "b", "c", "d", "-", "e", "f", "0", "1",
      "2", "3", "4", "5", "6", "7", "8", "9">>

UuidUpper ==
    <<"0", "A", "1", "B", "2", "C", "3", "D", "-", "4", "E", "5", "F", "-",
      "6", "7", "8", "9", "-", "A", "B", "C", "D", "-", "E", "F", "0", "1",
      "2", "3", "4", "5", "6", "7", "8", "9">>

UuidNewline ==
    <<"0", "a", "1", "b", "2", "c", "3", "d", "-", "4", "e", "5", "f", "-",
      "6", "7", "8", "9", "-", "a", "b", "c", "d", "-", "e", "f", "0", "1",
      "2", "3", "4", "5", "6", "7", "8", "9", "\n">>

UuidBad == <<"b", "a", "d", "-", "u", "u", "i", "d">>

PassShort == <<"s", "h", "o", "r", "t">>

PassSeven == <<"1", "2", "3", "4", "5", "6", "7">>

PassEight == <<"1", "2", "3", "4", "5", "6", "7", "8">>

PathRoot == <<"/">>

JsonEmpty == <<"{", "}">>

TxtPong == <<"p", "o", "n", "g">>

ReplyBinary == <<"0xff">>

TxtHelloRuangguru ==
    <<"H", "e", "l", "l", "o", " ", "R", "u", "a", "n", "g", "g", "u", "r",
      "u">>

TxtHello == <<"H", "e", "l", "l", "o">>

Credentials ==
    {UuidGood, UuidUpper, UuidNewline, UuidBad, PassShort, PassSeven,
     PassEight, <<>>}

WsOutcomes ==
    {[kind |-> "ok", response |-> JsonEmpty, err |-> <<>>],
     [kind |-> "ok", response |-> TxtPong, err |-> <<>>],
     [kind |-> "ok", response |-> <<>>, err |-> <<>>],
     [kind |-> "ok", response |-> ReplyBinary, err |-> <<>>],
     [kind |-> "WebSocketException", response |-> <<>>, err |-> TxtBoom],
     [kind |-> "Exception", response |-> <<>>, err |-> TxtBoom]}

HttpOutcomes ==
    {[kind |-> "ok", status |-> s, text |-> t, xheader |-> x, err |-> <<>>] :
        s \in {HttpOk, 404}, t \in {TxtHelloRuangguru, TxtHello},
        x \in BOOLEAN}
    \cup {[kind |-> k, status |-> 0, text |-> <<>>, xheader |-> FALSE,
           err |-> TxtBoom] : k \in {"RequestException", "ValueError"}}

\* one call check_vmess_trojan(host, port, path, protocol, cred, use_tls)
CheckVmessTrojan(host, port, path, protocol, cred, use_tls, ws) ==
    /\ LET r == check_vmess_trojan(host, port, path, protocol, cred, use_tls,
                                   ws)
       IN  special' = [fn |-> "check_vmess_trojan",
                       args |-> [host |-> host, port |-> port,
                                 protocol |-> protocol, cred |-> cred],
                       io |-> ws, typed |-> <<>>,
                       opened |-> r.opened, raised |-> r.raised,
                       result |-> r.result]
    /\ UNCHANGED <<vh, net, scanVars, cache, callers, spy, lru, chk, png,
                   menu>>

\* one call check_quota_bug(host, port)
CheckQuotaBug(host, port, http) ==
    /\ LET r == check_quota_bug(host, port, http)
       IN  special' = [fn |-> "check_quota_bug",
                       args |-> [host |-> host, port |-> port,
                                 protocol |-> <<>>, cred |-> <<>>],
                       io |-> http, typed |-> <<>>,
                       opened |-> r.opened, raised |-> r.raised,
                       result |-> r.result]
    /\ UNCHANGED <<vh, net, scanVars, cache, callers, spy, lru, chk, png,
                   menu>>

NextSpecial ==
    \/ \E host \in {HostA, HostB}, port \in {80, ScanPort},
          protocol \in {Vmess, Trojan}, cred \in Credentials,
          use_tls \in BOOLEAN, ws \in WsOutcomes :
           CheckVmessTrojan(host, port, PathRoot, protocol, cred, use_tls, ws)
    \/ \E host \in {HostA, HostB}, port \in {80, ScanPort},
          http \in HttpOutcomes : CheckQuotaBug(host, port, http)

SpecSpecial == InitResolver /\ [][NextSpecial]_vars

\* C18: a probing operation always returns a (colour, message) result and
\* lets no exception out, whatever its network layer raises.
C18_ProbesAreTotal ==
    special.fn # "none" =>
        /\ special.raised = "none"
        /\ special.result.color \in {"green", "yellow", "red"}
        /\ special.result.message # <<>>

\* a credential in the strict form 8-4-4-4-12 of lower-case hex digits
StrictUuid(u) == UuidShape(u)

\* C20: check_vmess_trojan returns a red [Error] without opening a
\* WebSocket whenever the credential is not a strict lower-case UUID (vmess)
\* or is shorter than 8 characters (trojan).
C20_InvalidCredentialFailsFast ==
    (/\ special.fn = "check_vmess_trojan"
     /\ \/ special.args.protocol = Vmess /\ ~StrictUuid(special.args.cred)
        \/ special.args.protocol = Trojan /\ Len(special.args.cred) < 8)
    => /\ special.opened = 0
       /\ special.result.color = "red"
       /\ StartsWith(special.result.message, TxtPrefixError)

\* the reply is a JSON document
JsonParseable(reply) == Utf8Decodes(reply) /\ JsonLoads(reply)

\* the call got past the validation of its credential
Connected == special.fn = "check_vmess_trojan" /\ special.opened = 1

\* C21: after a successful handshake check_vmess_trojan gives, for vmess,
\* green for a JSON-parseable reply and the yellow warning for every other
\* reply, never Error; for trojan, green for a non-empty reply and the
\* yellow warning for an empty one; a failed handshake gives a red Error.
C21_RepliesClassified ==
    Connected =>
        LET reply == special.io.response
            color == special.result.color
            message == special.result.message
        IN  IF special.io.kind # "ok"
            THEN color = "red"
            ELSE IF special.args.protocol = Vmess
            THEN IF JsonParseable(reply)
                 THEN color = "green" /\ StartsWith(message, TxtVmessOk)
                 ELSE /\ color = "yellow"
                      /\ StartsWith(message, TxtVmessWarning)
            ELSE IF reply # <<>>
                 THEN color = "green" /\ StartsWith(message, TxtTrojanOk)
                 ELSE /\ color = "yellow"
                      /\ StartsWith(message, TxtTrojanWarning)

\* the body carries the vendor marker, in any letter case
HasMarker(text) == Contains(ToLower(text), TxtRuangguru)

\* the GET of check_quota_bug got a response or a transport error
QuotaAnswered ==
    /\ special.fn = "check_quota_bug"
    /\ special.io.kind \in {"ok", "RequestException"}

\* C22: check_quota_bug is green exactly for status 200 with the marker in
\* the body and the vendor header present, yellow Partial for status 200
\* with one of the two missing, yellow Failed for every other status, and a
\* red Error for a transport error.
C22_QuotaClassified ==
    QuotaAnswered =>
        LET io == special.io
            color == special.result.color
            message == special.result.message
            full == /\ io.kind = "ok"
                    /\ io.status = HttpOk
                    /\ HasMarker(io.text)
                    /\ io.xheader
        IN  /\ special.raised = "none"
            /\ color = "green" <=> full
            /\ io.kind = "ok" /\ io.status = HttpOk /\ ~full
                   => color = "yellow" /\ StartsWith(message, TxtQuotaPartial)
            /\ io.kind = "ok" /\ io.status # HttpOk
                   => color = "yellow" /\ StartsWith(message, TxtQuotaFailed)
            /\ io.kind = "RequestException"
                   => color = "red" /\ StartsWith(message, TxtQuotaError)

\* a 200 response with the marker and without the header came back Partial
C22_Witness ==
    /\ QuotaAnswered
    /\ special.io.kind = "ok"
    /\ special.io.status = HttpOk
    /\ HasMarker(special.io.text)
    /\ ~special.io.xheader
    /\ StartsWith(special.result.message, TxtQuotaPartial)

-----------------------------------------------------------------------------
(* cli.main_menu: one prompt after the other                               *)

HostPadded == <<" ", "b", "b", ".", "c", "o", " ">>

HostBad == <<"b", "a", "d", " ", "h", "o", "s", "t">>

Port443 == <<"4", "4", "3">>

PortZero == <<"0">>

PortWord == <<"x">>

MaxChoices == 2

MenuHosts == {HostPadded, HostBad}

MenuPorts == {Port443, PortZero, PortWord}

MenuFiles ==
    {[state |-> "ok", lines |-> <<LineBad, LineA>>],
     [state |-> "ok", lines |-> <<LineBad>>],
     [state |-> "missing", lines |-> <<>>],
     [state |-> "unreadable", lines |-> <<>>]}

\* port.isdigit() and int(port) > 0
PortOk(port) ==
    IF port # <<>> /\ AllIn(port, Digits) THEN NumberOf(port) > 0 ELSE FALSE

\* line 136: the test before check_host
MenuHostOk(host, port) == validate_host(host) /\ PortOk(port)

\* a menu that validates the port of a special check and not its host
SpecialArgsOkPortOnly(host, port) ==
    IF port # <<>> /\ AllIn(port, Digits) THEN NumberOf(port) > 0 ELSE TRUE

\* lines 229-235, 251-259: the tests before a special check; a port that
\* is not a number is left out of the arguments
SpecialArgsOk(host, port) ==
    /\ validate_host(host)
    /\ IF port # <<>> /\ AllIn(port, Digits) THEN NumberOf(port) > 0
       ELSE TRUE

\* the port a special check runs with: the one entered, else its default
SpecialPort(port, default) ==
    IF port # <<>> /\ AllIn(port, Digits) THEN NumberOf(port) ELSE default

\* the menu is at its prompt and nothing it called is running
AtPrompt ==
    /\ menu.state = "prompt"
    /\ menu.turns < MaxChoices
    /\ chk.state = "idle" /\ png.state = "idle" /\ pc = "menu"

Called(fn, host) == [fn |-> fn, host |-> host]

\* lines 141-144, 156-157, 188-189, 251-258: the choice is refused with
\* an error message and nothing is called
MenuRefuse ==
    /\ AtPrompt
    /\ \/ \E host \in MenuHosts, port \in MenuPorts : ~MenuHostOk(host, port)
       \/ \E host \in MenuHosts : ~validate_host(host)
       \/ \E f \in MenuFiles : f.state = "missing"
       \/ \E host \in MenuHosts, port \in MenuPorts : ~SpecialArgsOk(host, port)
    /\ menu' = [menu EXCEPT !.turns = @ + 1]
    /\ UNCHANGED <<vh, net, scanVars, cache, callers, spy, lru, chk, png,
                   special>>

\* lines 132-138: choice 1 with a host and a port that pass
MenuCheckHost(host, port, dig) ==
    /\ AtPrompt
    /\ MenuHostOk(host, port)
    /\ CheckHostCall(host, NumberOf(port), dig)

\* lines 139-140: check_host returned
MenuCheckHostEnd ==
    /\ menu.state = "prompt"
    /\ chk.state = "done"
    /\ menu' = [menu EXCEPT
           !.turns = @ + 1,
           !.results = Append(@, chk.result),
           !.calls = Append(@, Called("check_host", chk.host))]
    /\ chk' = NoChk
    /\ UNCHANGED <<vh, net, scanVars, cache, callers, spy, lru, png, special>>

\* lines 146-153: choice 2 with a host that passes
MenuCheckPing(host, dig) ==
    /\ AtPrompt
    /\ validate_host(host)
    /\ PingCall(host, dig)

\* lines 154-155: check_ping returned
MenuCheckPingEnd ==
    /\ menu.state = "prompt"
    /\ png.state = "done"
    /\ menu' = [menu EXCEPT
           !.turns = @ + 1,
           !.results = Append(@, png.result),
           !.calls = Append(@, Called("check_ping", png.host))
                     \o [k \in 1..Len(png.fallbacks) |->
                            Called("check_host", png.fallbacks[k].host)]]
    /\ png' = NoPng
    /\ UNCHANGED <<vh, net, scanVars, cache, callers, spy, lru, chk, special>>

\* lines 159-170: choice 3 with a file that exists
MenuScan(f) ==
    /\ AtPrompt
    /\ f.state # "missing"
    /\ file' = f
    /\ pc' = "open"
    /\ UNCHANGED <<vh, net, max_workers, hosts, futures, results, outcome,
                   invoked, cache, callers, spy, lru, chk, png, special,
                   menu>>

\* line 170: scan_hosts_from_file returned and results.extend(...), or it
\* raised and the exception leaves main_menu
MenuScanEnd ==
    /\ menu.state = "prompt"
    /\ pc = "done"
    /\ menu' = IF outcome.kind = "raise"
               THEN [menu EXCEPT !.state = "crashed", !.turns = @ + 1]
               ELSE [menu EXCEPT
                        !.turns = @ + 1,
                        !.results = @ \o outcome.value,
                        !.calls = @ \o [k \in 1..Len(invoked) |->
                                           Called("check_host", invoked[k])]]
    /\ pc' = "menu"
    /\ hosts' = <<>>
    /\ futures' = <<>>
    /\ results' = <<>>
    /\ outcome' = NoOutcome
    /\ invoked' = <<>>
    /\ UNCHANGED <<vh, net, file, max_workers, cache, callers, spy, lru, chk,
                   png, special>>

\* lines 208-263: the Vmess/Trojan check with arguments that pass
MenuVmessTrojan(host, port, protocol, cred, use_tls, ws) ==
    /\ AtPrompt
    /\ SpecialArgsOk(host, port)
    /\ LET r == check_vmess_trojan(host, SpecialPort(port, 80), PathRoot,
                                   protocol, cred, use_tls, ws)
       IN  /\ special' = [fn |-> "check_vmess_trojan",
                          args |-> [host |-> host,
                                    port |-> SpecialPort(port, 80),
                                    protocol |-> protocol, cred |-> cred],
                          io |-> ws, typed |-> port,
                          opened |-> r.opened, raised |-> r.raised,
                          result |-> r.result]
           /\ menu' = [menu EXCEPT
                  !.turns = @ + 1,
                  !.results = Append(@, r.result),
                  !.calls = Append(@, Called("check_vmess_trojan", host))]
    /\ UNCHANGED <<vh, net, scanVars, cache, callers, spy, lru, chk, png>>

\* lines 208-263: the quota bug check with arguments that pass; an
\* exception it lets out leaves main_menu
MenuQuotaBug(host, port, http) ==
    /\ AtPrompt
    /\ SpecialArgsOk(host, port)
    /\ LET r == check_quota_bug(host, SpecialPort(port, ScanPort), http)
       IN  /\ special' = [fn |-> "check_quota_bug",
                          args |-> [host |-> host,
                                    port |-> SpecialPort(port, ScanPort),
                                    protocol |-> <<>>, cred |-> <<>>],
                          io |-> http, typed |-> port,
                          opened |-> r.opened, raised |-> r.raised,
                          result |-> r.result]
           /\ menu' = IF r.raised # "none"
                      THEN [menu EXCEPT
                               !.state = "crashed",
                               !.turns = @ + 1,
                               !.calls = Append(@, Called("check_quota_bug",
                                                          host))]
                      ELSE [menu EXCEPT
                               !.turns = @ + 1,
                               !.results = Append(@, r.result),
                               !.calls = Append(@, Called("check_quota_bug",
                                                          host))]
    /\ UNCHANGED <<vh, net, scanVars, cache, callers, spy, lru, chk, png>>


\* what the commands do while the menu runs
MenuDigs == {DigOk(<<Ip1>>), DigErr("TimeoutExpired")}

MenuCurls == {CurlOk(Status200, 1004), CurlErr("TimeoutExpired", <<>>, <<>>)}

MenuPings == {p \in PingOutcomes : p.stdout # PingNoStats}

MenuWs == {w \in WsOutcomes : w.kind = "Exception" \/ w.response = JsonEmpty}

MenuHttp == {h \in HttpOutcomes : h.xheader /\ h.text # TxtHello}

InitMenu ==
    /\ file = [state |-> "missing", lines |-> <<>>]
    /\ max_workers = 1
    /\ pc = "menu"
    /\ hosts = <<>>
    /\ futures = <<>>
    /\ results = <<>>
    /\ outcome = NoOutcome
    /\ invoked = <<>>
    /\ cache = <<>>
    /\ callers = <<>>
    /\ spy = NoSpy
    /\ lru = NoLru
    /\ chk = NoChk
    /\ png = NoPng
    /\ special = NoSpecial
    /\ menu = NoMenu
    /\ vh = NoVh
    /\ net = NoNet

NextMenu ==
    \/ MenuRefuse
    \/ \E host \in MenuHosts, port \in MenuPorts, dig \in MenuDigs :
           MenuCheckHost(host, port, dig)
    \/ CheckHostUnresolved
    \/ \E curl \in MenuCurls : CheckHostProbe(curl)
    \/ CheckHostReturn
    \/ MenuCheckHostEnd
    \/ \E host \in MenuHosts, dig \in MenuDigs : MenuCheckPing(host, dig)
    \/ \E ping \in MenuPings : PingDone(ping)
    \/ \E ping \in MenuPings, dig \in MenuDigs, curl \in MenuCurls :
           PingFallback(ping, dig, <<curl>>)
    \/ MenuCheckPingEnd
    \/ \E f \in MenuFiles : MenuScan(f)
    \/ Open
    \/ Submit
    \/ \E i \in 1..Len(futures) : Start(i)
    \/ \E i \in 1..Len(futures), dig \in MenuDigs : DigDone(i, dig)
    \/ \E i \in 1..Len(futures), curl \in MenuCurls : Finish(i, <<curl>>)
    \/ \E i \in 1..Len(futures) : TaskRaise(i)
    \/ \E j \in 1..Len(futures) : Collect(j)
    \/ Return
    \/ MenuScanEnd
    \/ \E host \in MenuHosts, port \in MenuPorts, protocol \in {Vmess, Trojan},
          cred \in {UuidGood, PassShort}, ws \in MenuWs :
           MenuVmessTrojan(host, port, protocol, cred, TRUE, ws)
    \/ \E host \in MenuHosts, port \in MenuPorts, http \in MenuHttp :
           MenuQuotaBug(host, port, http)

SpecMenu == InitMenu /\ [][NextMenu]_vars

\* every host a probe was or is being called with
ProbedHosts ==
    {menu.calls[k].host : k \in 1..Len(menu.calls)}
    \cup {invoked[k] : k \in 1..Len(invoked)}
    \cup {png.fallbacks[k].host : k \in 1..Len(png.fallbacks)}
    \cup (IF chk.state # "idle" THEN {chk.host} ELSE {})
    \cup (IF png.state # "idle" THEN {png.host} ELSE {})
    \cup (IF special.fn # "none" THEN {special.args.host} ELSE {})

\* C19: in the menu loop and in a file scan no probe is called with a host
\* that validate_host refuses, and a refused host is not tried again:
\* each turn of the loop calls at most the probes of one choice.
C19_OnlyValidHostsProbed ==
    /\ \A h \in ProbedHosts : validate_host(h)
    /\ menu.turns <= MaxChoices

\* the menu used up its turns and probed the host typed with blanks
\* around it
C19_Witness ==
    /\ menu.turns = MaxChoices
    /\ \E k \in 1..Len(menu.calls) : menu.calls[k].host = HostPadded
    /\ Len(menu.results) >= 1

\* the answer to an integer prompt is a digit string
IsDigitString(answer) == answer # <<>> /\ AllIn(answer, Digits)

\* C28: when the answer to an integer prompt of a special check is not a
\* digit string, the check function is not executed and no result is
\* appended to the results of the session: a special check that ran was
\* given a digit string.
C28_BadIntegerSkipsCheck ==
    special.fn # "none" => IsDigitString(special.typed)

\* an earlier probe of the session reported that h failed to resolve
ReturnedSentinel(h) ==
    \E k \in 1..Len(menu.results) : menu.results[k] = Unresolved(h)

\* C29: once get_host_ips(h) has returned the sentinel, a later
\* check_host(h) or check_ping(h) of the same process gets the sentinel
\* from the cache without a new lookup and reports "failed to resolve"
\* with no probe, even when dig would answer now.
C29_FailureMemoized ==
    [][/\ (chk.state = "idle" /\ chk'.state # "idle"
           /\ ReturnedSentinel(chk'.host))
              => chk'.dig = NoDig /\ chk'.ips = <<NA>>
       /\ (chk.state = "loop" /\ chk.ips = <<NA>> /\ chk' # chk)
              => /\ chk'.state = "done"
                 /\ chk'.cmds = <<>>
                 /\ chk'.result = Unresolved(chk.host)
       /\ (png.state = "idle" /\ png'.state # "idle"
           /\ ReturnedSentinel(png'.host))
              => /\ png'.dig = NoDig
                 /\ png'.state = "done"
                 /\ png'.pings = <<>> /\ png'.fallbacks = <<>>
                 /\ png'.result = Unresolved(png'.host)]_vars

\* check_host failed to resolve the host, and the check_ping that followed
\* reported the same from the cache
C29_Witness ==
    /\ png.state = "done"
    /\ png.dig = NoDig
    /\ png.result = Unresolved(png.host)
    /\ ReturnedSentinel(png.host)
    /\ \E k \in 1..Len(menu.calls) :
           menu.calls[k] = Called("check_host", png.host)

-----------------------------------------------------------------------------
(* utils.validate_host over short and over named host strings             *)

MaxHostChars == 4

HostAlphabet == {"a", "1", "-", "."}

\* s repeated n times
RECURSIVE Repeat(_, _)
Repeat(s, n) == IF n = 0 THEN <<>> ELSE s \o Repeat(s, n - 1)

HostExample == <<"e", "x", "a", "m", "p", "l", "e", ".", "c", "o", "m">>

HostLoopback == <<"1", "2", "7", ".", "0", ".", "0", ".", "1">>

HostShortLabels == <<"a", ".", "b", ".", "c", "o">>

HostSub == <<"s", "u", "b", ".", "d", "o", "m", "a", "i", "n", ".", "c", "o">>

HostUrl == <<"h", "t", "t", "p", ":", "/", "/", "x">>

HostWithPort == <<"x", ":", "8", "0">>

HostWithPath == <<"x", "/", "y">>

HostWithUser == <<"x", "@", "y">>

TxtDotCom == <<".", "c", "o", "m">>

\* a label of 64 characters, and one of 63
HostLabel64 == Repeat(<<"a">>, MaxLabelLen + 1) \o TxtDotCom

HostLabel63 == Repeat(<<"a">>, MaxLabelLen) \o TxtDotCom

\* names of 253 and of 254 characters
HostLen253 == Repeat(<<"a", "b", ".">>, 83) \o <<"a", "b", "c", "d">>

HostLen254 == Repeat(<<"a", "b", ".">>, 84) \o <<"c", "o">>

NamedHosts ==
    {HostExample, HostLoopback, HostShortLabels, HostSub, HostUrl,
     HostWithPort, HostWithPath, HostWithUser, HostLabel64, HostLabel63,
     HostLen253, HostLen254, <<>>}

HostStrings ==
    NamedHosts
    \cup UNION {[1..n -> HostAlphabet] : n \in 1..MaxHostChars}

\* one call validate_host(host)
ValidateHost(host) ==
    /\ pc = "validate"
    /\ vh' = [called |-> TRUE, host |-> host, verdict |-> validate_host(host)]
    /\ UNCHANGED <<net, scanVars, cache, callers, spy, lru, chk, png, special,
                   menu>>

InitValidate ==
    /\ file = [state |-> "missing", lines |-> <<>>]
    /\ max_workers = 1
    /\ pc = "validate"
    /\ hosts = <<>>
    /\ futures = <<>>
    /\ results = <<>>
    /\ outcome = NoOutcome
    /\ invoked = <<>>
    /\ cache = <<>>
    /\ callers = <<>>
    /\ spy = NoSpy
    /\ lru = NoLru
    /\ chk = NoChk
    /\ png = NoPng
    /\ special = NoSpecial
    /\ menu = NoMenu
    /\ vh = NoVh
    /\ net = NoNet

NextValidate == \E host \in HostStrings : ValidateHost(host)

SpecValidate == InitValidate /\ [][NextValidate]_vars

\* 1 to 63 letters, digits and hyphens, no hyphen first or last
GrammarLabel(l) ==
    /\ Len(l) \in 1..63
    /\ AllIn(l, AlNum \cup {"-"})
    /\ l[1] # "-"
    /\ l[Len(l)] # "-"

\* a domain name of at most 253 characters made of such labels
GrammarDomain(h) ==
    LET labels == Split(h, ".")
    IN  /\ Len(h) \in 1..253
        /\ \A i \in 1..Len(labels) : GrammarLabel(labels[i])

\* four decimal numbers 0..255 of one to three digits
GrammarIPv4(h) ==
    LET parts == Split(h, ".")
    IN  /\ Len(parts) = 4
        /\ \A i \in 1..4 : /\ Len(parts[i]) \in 1..3
                             /\ AllIn(parts[i], Digits)
                             /\ NumberOf(parts[i]) <= 255

\* C23: validate_host returns True exactly for an IPv4 dotted quad or a
\* domain name of at most 253 characters whose labels are 1 to 63 letters,
\* digits and hyphens with no hyphen first or last and no empty label; it
\* accepts "example.com", "127.0.0.1" and "a.b.co".
C23_ValidateHostGrammar ==
    vh.called => (vh.verdict <=> GrammarIPv4(vh.host) \/ GrammarDomain(vh.host))

-----------------------------------------------------------------------------
(* The timeout each network operation of a probe is issued with            *)

\* host_checker.py line 42: the timeout of the dig command
DigTimeout == 10

\* the timeout argument the caller passes to a probe
Timeouts == {1, 5, DigTimeout}

Op(name, t) == [op |-> name, timeout |-> t]

\* lines 33-44: get_host_ips runs dig unless the answer is cached
LookupOps(hit) == IF hit THEN <<>> ELSE <<Op("dig", DigTimeout)>>

\* lines 95-117: check_host runs curl once for each of n addresses, with
\* --connect-timeout and the timeout of subprocess.run both set to timeout
CurlOps(n, timeout) == [k \in 1..n |-> Op("curl", timeout)]

\* one call check_host(host, port, timeout)
TimedCheckHost(host, timeout, dig) ==
    /\ pc = "timeout"
    /\ LET hit == CacheHas(cache, host)
           ips == IF hit THEN cache[CacheGet(cache, host)].val
                  ELSE GetHostIpsBody(dig)
       IN  /\ cache' = IF hit THEN CacheTouch(cache, host)
                       ELSE CacheStore(cache, host, ips)
           /\ net' = [fn |-> "check_host", timeout |-> timeout,
                      ops |-> LookupOps(hit)
                              \o CurlOps(NumProbes(ips), timeout)]
    /\ UNCHANGED <<vh, scanVars, callers, spy, lru, chk, png, special, menu>>

\* one call check_ping(host, timeout); the fallback check_host(host,
\* timeout=timeout) finds the addresses in the cache
TimedCheckPing(host, timeout, dig, kind) ==
    /\ pc = "timeout"
    /\ LET hit == CacheHas(cache, host)
           ips == IF hit THEN cache[CacheGet(cache, host)].val
                  ELSE GetHostIpsBody(dig)
       IN  /\ cache' = IF hit THEN CacheTouch(cache, host)
                       ELSE CacheStore(cache, host, ips)
           /\ net' = [fn |-> "check_ping", timeout |-> timeout,
                      ops |-> LookupOps(hit)
                              \o IF IsSentinel(ips[1]) THEN <<>>
                                 ELSE <<Op("ping", timeout)>>
                                      \o IF NeedsFallback(kind)
                                         THEN CurlOps(NumProbes(ips), timeout)
                                         ELSE <<>>]
    /\ UNCHANGED <<vh, scanVars, callers, spy, lru, chk, png, special, menu>>

\* one call check_vmess_trojan(..., timeout): ws.connect(timeout=timeout)
\* sets the timeout of the socket that send and recv use afterwards
TimedVmessTrojan(host, protocol, cred, timeout, ws) ==
    /\ pc = "timeout"
    /\ LET r == check_vmess_trojan(host, 80, PathRoot, protocol, cred, FALSE,
                                   ws)
       IN  net' = [fn |-> "check_vmess_trojan", timeout |-> timeout,
                   ops |-> IF r.opened = 0 THEN <<>>
                           ELSE IF ws.kind = "ok"
                           THEN <<Op("connect", timeout), Op("send", timeout),
                                  Op("recv", timeout)>>
                           ELSE <<Op("connect", timeout)>>]
    /\ UNCHANGED <<vh, scanVars, cache, callers, spy, lru, chk, png, special,
                   menu>>

\* one call check_quota_bug(host, port, timeout)
TimedQuotaBug(timeout) ==
    /\ pc = "timeout"
    /\ net' = [fn |-> "check_quota_bug", timeout |-> timeout,
               ops |-> <<Op("get", timeout)>>]
    /\ UNCHANGED <<vh, scanVars, cache, callers, spy, lru, chk, png, special,
                   menu>>

InitTimeout ==
    /\ file = [state |-> "missing", lines |-> <<>>]
    /\ max_workers = 1
    /\ pc = "timeout"
    /\ hosts = <<>>
    /\ futures = <<>>
    /\ results = <<>>
    /\ outcome = NoOutcome
    /\ invoked = <<>>
    /\ cache = <<>>
    /\ callers = <<>>
    /\ spy = NoSpy
    /\ lru = NoLru
    /\ chk = NoChk
    /\ png = NoPng
    /\ special = NoSpecial
    /\ menu = NoMenu
    /\ vh = NoVh
    /\ net = NoNet

NextTimeout ==
    \/ \E host \in {HostA, HostB}, timeout \in Timeouts, dig \in PingDigs :
           TimedCheckHost(host, timeout, dig)
    \/ \E host \in {HostA, HostB}, timeout \in Timeouts, dig \in PingDigs,
          ping \in PingOutcomes : TimedCheckPing(host, timeout, dig, ping.kind)
    \/ \E protocol \in {Vmess, Trojan}, cred \in {UuidGood, PassShort},
          timeout \in Timeouts, ws \in WsOutcomes :
           TimedVmessTrojan(HostA, protocol, cred, timeout, ws)
    \/ \E timeout \in Timeouts : TimedQuotaBug(timeout)

SpecTimeout == InitTimeout /\ [][NextTimeout]_vars

\* C24: every network operation a probe starts (the dig of get_host_ips,
\* the curl of check_host, the ping of check_ping, the WebSocket connect,
\* send and receive, the GET of check_quota_bug) is issued with the timeout
\* the caller of the probe supplied.
C24_CallerTimeoutEverywhere ==
    \A k \in 1..Len(net.ops) : net.ops[k].timeout = net.timeout

=============================================================================
